---- MODULE Spec2Model ----
(***************************************************************************)
(* Verification model of the felix deep-research backend.                  *)
(*                                                                         *)
(* Part I   - the asynchronous ResearchJob state machine: the submit and   *)
(*            cancel endpoints (api/endpoints/deep_research.py), the       *)
(*            Celery task run_deep_research and its failure callback       *)
(*            (tasks/research_tasks.py), all acting on one persisted       *)
(*            ResearchJob row (models/research_job.py).                    *)
(* Part II  - the auto-retry loop of the /execute endpoint                 *)
(*            (api/endpoints/python_analysis.py).                          *)
(* Part III - the research pipeline DeepResearchService.research           *)
(*            (services/deep_research_service.py).                         *)
(* Part IV  - the sandboxed executor CodeExecutorService.execute_python    *)
(*            (services/code_executor_service.py).                         *)
(* Part V   - the progress stream GET /analyze-stream                      *)
(*            (api/endpoints/deep_research.py).                            *)
(* Part VI  - the JSON parser _parse_json_response.                        *)
(* Part VII - _decompose_question and its max_count argument.              *)
(* Part VIII- WorkflowOrchestrator.execute_workflow                        *)
(*            (services/workflow_orchestrator.py).                         *)
(* Part IX  - concurrent POST /execute requests for one record.            *)
(***************************************************************************)
EXTENDS Integers, Sequences, FiniteSets, TLC

(***************************************************************************)
(* Bounds of the model.                                                    *)
(***************************************************************************)
\* the wall clock (datetime.utcnow(), whole seconds) runs from 0 to MaxTime
MaxTime == 2
\* number of DELETE /jobs/{job_id} requests issued for the job
MaxCancels == 2
\* code strings are numbered 0..MaxCode (0 is the empty string)
MaxCode == 2
\* the decomposer returns at most MaxQuestions sub-questions
MaxQuestions == 2
\* number of execute_python calls made in one process
MaxRuns == 2
\* pyplot figure numbers are 1..MaxFigures
MaxFigures == 2
\* an oracle response has at most MaxText symbols
MaxText == 4
\* a workflow has at most MaxSteps steps, numbered within 1..MaxSteps
MaxSteps == 3
\* number of /execute requests issued for one record
MaxRequests == 2

(***************************************************************************)
(* Part I - ResearchJob state machine                                      *)
(***************************************************************************)

\* SQL NULL of a nullable column (started_at, completed_at, ...)
NULL == -1

VARIABLES
    job,                \* the persisted research_jobs row (committed state)
    jobExists,          \* the row has been inserted (submit's first commit)
    now,                \* datetime.utcnow()
    submitPc,           \* position of the submit handler
    verbose,            \* request.verbose, passed to the task as an argument
    taskPc,             \* position of the Celery task run_deep_research
    taskStage,          \* stage number the task is at (0 = service construction)
    revoked,            \* celery_app.control.revoke(task_id, terminate=True) was sent
    cancelPc,           \* position of the cancel handler in flight
    cancelJob,          \* the job object loaded by the cancel handler's session
    cancelCount,        \* cancel requests issued so far
    cancelReply,        \* "success" value of the last cancel response
    completedAtWrites   \* history: number of commits that wrote completed_at

jobVars == <<job, jobExists, now, submitPc, verbose, taskPc, taskStage, revoked,
             cancelPc, cancelJob, cancelCount, cancelReply, completedAtWrites>>

VARIABLES
    rec,                \* the persisted code_executions row
    exPc,               \* position of the /execute handler
    attempt,            \* loop variable of the retry loop
    current_code,       \* code the next attempt executes
    exec_result,        \* result of the last executor.execute_python call
    codesRun,           \* history: the code of every attempt executed, in order
    resultsRun,         \* history: what every executor call returned, in order
    fixLog              \* history: one entry per repair step (pattern, oracle results)

repairVars == <<rec, exPc, attempt, current_code, exec_result, codesRun, resultsRun,
               fixLog>>

VARIABLES
    pipePc,             \* stage DeepResearchService.research is at
    enable_python,      \* arguments of research()
    enable_world_knowledge,
    verbose_mode,
    sub_questions,      \* list of SubQuestion (their intent_type)
    classified,         \* list of ClassifiedQuestion
    dispatchIdx,        \* position of the loop of _execute_queries
    results,            \* list of AnalysisResult
    dispatchLog,        \* history, aligned with results: what produced each result
    world_knowledge,    \* the enrichment map
    enrichOutcome,      \* history: how the enrichment oracle call ended
    raisedAt,           \* stage whose exception left research(), or "none"
    stageTrace,         \* history: the stages started, in order
    decomposeOutcome,   \* history: what the decomposition oracle answered
    oracle_synthesis,   \* history: the synthesis dict parsed from the oracle
    supporting_details  \* supporting_details of the dict research() returns

pipeVars == <<pipePc, enable_python, enable_world_knowledge, verbose_mode,
              sub_questions, classified, dispatchIdx, results, dispatchLog,
              world_knowledge, enrichOutcome, raisedAt, stageTrace,
              decomposeOutcome, oracle_synthesis, supporting_details>>

VARIABLES
    exePc,              \* position of execute_python
    timeout_sec,        \* its timeout_sec argument
    alarm,              \* seconds until the pending SIGALRM, zero if none
    figures,            \* pyplot's open figure numbers (state of the process)
    runFigures,         \* history: figures the current call's code left open
    reached,            \* history: capabilities the current call's code reached
    exeReturn,          \* the dict the call returned
    runCount,           \* number of calls made
    duckdb_conn         \* the call's query-engine connection: none, open, closed

exeVars == <<exePc, timeout_sec, alarm, figures, runFigures, reached, exeReturn,
             runCount, duckdb_conn>>

VARIABLES
    genPc,              \* position of event_generator
    researchPc,         \* position of the task run_research
    researchStage,      \* number of the last progress event research() sent
    progress_queue,     \* the asyncio.Queue between the two
    emitted             \* history: the events yielded to the client

streamVars == <<genPc, researchPc, researchStage, progress_queue, emitted>>

VARIABLES
    response_text,      \* text the oracle returned
    parse_result              \* what _parse_json_response made of it

parseVars == <<response_text, parse_result>>

VARIABLES
    max_count,          \* the max_count argument of _decompose_question
    oracle_list,        \* history: the sub_questions list of the oracle's answer
    decomposed          \* what _decompose_question returned

decompVars == <<max_count, oracle_list, decomposed>>

VARIABLES
    total_steps,        \* number of steps of the workflow
    wfIdx,              \* steps the loop of execute_workflow has gone through
    step_results,       \* keys of context['step_results']
    failedNums,         \* history: numbers of the steps that failed
    skippedNums,        \* history: numbers of the steps that were skipped
    lastStep,           \* history: the step of the last iteration
    wfPc                \* position of execute_workflow

workflowVars == <<total_steps, wfIdx, step_results, failedNums, skippedNums,
                  lastStep, wfPc>>

VARIABLES
    execution_status,   \* committed execution_status of the code_executions row
    reqPc,              \* position of each /execute request
    reqRead             \* the status each request read from the row

raceVars == <<execution_status, reqPc, reqRead>>

vars == <<jobVars, repairVars, pipeVars, exeVars, streamVars, parseVars,
         decompVars, workflowVars, raceVars>>

\* ResearchJobStatus
PENDING == "pending"
RUNNING == "running"
COMPLETED == "completed"
FAILED == "failed"
CANCELLED == "cancelled"

TerminalStatuses == {COMPLETED, FAILED, CANCELLED}

\* column defaults of a freshly inserted ResearchJob
NewJob(v) ==
    [ status |-> PENDING, verbose_mode |-> v, celery_task_id |-> FALSE,
      current_stage |-> NULL, progress_percentage |-> 0,
      result |-> FALSE, error_message |-> FALSE,
      started_at |-> NULL, completed_at |-> NULL,
      execution_time_seconds |-> NULL ]

\* StageProgress with the checkpoint of stage 4 below that of stage 3
StageProgressDropping(s) ==
    CASE s = 1 -> 10
      [] s = 2 -> 20
      [] s = 3 -> 35
      [] s = 4 -> 30
      [] s = 5 -> 70
      [] s = 6 -> 80
      [] s = 7 -> 90

\* progress_percentage committed before stage s of the task
StageProgress(s) ==
    CASE s = 1 -> 10
      [] s = 2 -> 20
      [] s = 3 -> 35
      [] s = 4 -> 55
      [] s = 5 -> 70
      [] s = 6 -> 80
      [] s = 7 -> 90

\* last stage of a run: stage 7 exists only when verbose == 1
LastStage(v) == IF v = 1 THEN 7 ELSE 6

\* a call into DeepResearchService either returns or raises; the task names
\* the stage methods and passes their arguments in its own way (lines 70-141),
\* so the outcome of each call is left open here
StageOutcomes == {"returns", "raises"}

\* positions at which the task's process is executing the task body
TaskActive == {"update", "call", "complete", "raised"}

\* a step of Part I leaves the other parts alone
JobStep == UNCHANGED <<repairVars, pipeVars, exeVars, streamVars, parseVars,
                       decompVars, workflowVars, raceVars>>

JobInit ==
    /\ job = NewJob(0)
    /\ jobExists = FALSE
    /\ now = 0
    /\ submitPc = "idle"
    /\ verbose = 0
    /\ taskPc = "none"
    /\ taskStage = 0
    /\ revoked = FALSE
    /\ cancelPc = "idle"
    /\ cancelJob = NewJob(0)
    /\ cancelCount = 0
    /\ cancelReply = "none"
    /\ completedAtWrites = 0

\* the wall clock advances
Tick ==
    /\ JobStep
    /\ now < MaxTime
    /\ now' = now + 1
    /\ UNCHANGED <<job, jobExists, submitPc, verbose, taskPc, taskStage, revoked,
                   cancelPc, cancelJob, cancelCount, cancelReply, completedAtWrites>>

\* submit_research_job, dataset lookup fails: 404, nothing is created
SubmitNotFound ==
    /\ JobStep
    /\ submitPc = "idle"
    /\ submitPc' = "rejected"
    /\ UNCHANGED <<job, jobExists, now, verbose, taskPc, taskStage, revoked,
                   cancelPc, cancelJob, cancelCount, cancelReply, completedAtWrites>>

\* submit_research_job building the job without committing it before the
\* enqueue
SubmitCreateWithoutCommit ==
    /\ JobStep
    /\ submitPc = "idle"
    /\ \E v \in {0, 1} :
          /\ verbose' = v
          /\ job' = NewJob(v)
    /\ jobExists' = jobExists
    /\ submitPc' = "created"
    /\ UNCHANGED <<now, taskPc, taskStage, revoked,
                   cancelPc, cancelJob, cancelCount, cancelReply, completedAtWrites>>

\* submit_research_job, lines 986-1002: db.add(job); db.commit()
SubmitCreate ==
    /\ JobStep
    /\ submitPc = "idle"
    /\ \E v \in {0, 1} :
          /\ verbose' = v
          /\ job' = NewJob(v)
    /\ jobExists' = TRUE
    /\ submitPc' = "created"
    /\ UNCHANGED <<now, taskPc, taskStage, revoked,
                   cancelPc, cancelJob, cancelCount, cancelReply, completedAtWrites>>

\* submit_research_job: run_deep_research.apply_async(..., task_id=job_id)
SubmitEnqueue ==
    /\ JobStep
    /\ submitPc = "created"
    /\ submitPc' = "enqueued"
    /\ taskPc' = "queued"
    /\ UNCHANGED <<job, jobExists, now, verbose, taskStage, revoked,
                   cancelPc, cancelJob, cancelCount, cancelReply, completedAtWrites>>

\* submit_research_job: job.celery_task_id = task.id; db.commit()
\* (the UPDATE carries the one modified column)
SubmitSetTaskId ==
    /\ JobStep
    /\ submitPc = "enqueued"
    /\ submitPc' = "done"
    /\ job' = [job EXCEPT !.celery_task_id = TRUE]
    /\ UNCHANGED <<jobExists, now, verbose, taskPc, taskStage, revoked,
                   cancelPc, cancelJob, cancelCount, cancelReply, completedAtWrites>>

\* run_deep_research, lines 52-60: load the job; without a record raise
\* ValueError("Job ... not found"); otherwise mark it running and commit
TaskStart ==
    /\ JobStep
    /\ taskPc = "queued"
    /\ IF jobExists
       THEN /\ job' = [job EXCEPT !.status = RUNNING,
                                  !.started_at = now,
                                  !.current_stage = 0,
                                  !.progress_percentage = 5]
            /\ taskPc' = "call"
       ELSE /\ job' = job
            /\ taskPc' = "raised"
    /\ taskStage' = 0
    /\ UNCHANGED <<jobExists, now, submitPc, verbose, revoked,
                   cancelPc, cancelJob, cancelCount, cancelReply, completedAtWrites>>

\* run_deep_research: the commit before stage s; the session's UPDATE carries
\* the two columns assigned since the previous commit
TaskStageUpdate ==
    /\ JobStep
    /\ taskPc = "update"
    /\ job' = [job EXCEPT !.current_stage = taskStage,
                          !.progress_percentage = StageProgress(taskStage)]
    /\ taskPc' = "call"
    /\ UNCHANGED <<jobExists, now, submitPc, verbose, taskStage, revoked,
                   cancelPc, cancelJob, cancelCount, cancelReply, completedAtWrites>>

\* run_deep_research: DeepResearchService() (stage 0) or the call of stage s
TaskStageCall ==
    /\ JobStep
    /\ taskPc = "call"
    /\ \E outcome \in StageOutcomes :
          IF outcome = "raises"
          THEN /\ taskPc' = "raised"
               /\ taskStage' = taskStage
          ELSE IF taskStage < LastStage(verbose)
          THEN /\ taskPc' = "update"
               /\ taskStage' = taskStage + 1
          ELSE /\ taskPc' = "complete"
               /\ taskStage' = taskStage
    /\ UNCHANGED <<job, jobExists, now, submitPc, verbose, revoked,
                   cancelPc, cancelJob, cancelCount, cancelReply, completedAtWrites>>

\* MarkCompleted that leaves job.result for a later commit
MarkCompletedWithoutResult(j, t) ==
    [j EXCEPT !.status = COMPLETED,
              !.completed_at = t,
              !.execution_time_seconds = t - j.started_at,
              !.current_stage = 8,
              !.progress_percentage = 100]

\* run_deep_research, lines 154-161: the columns of the completion commit
MarkCompleted(j, t) ==
    [j EXCEPT !.status = COMPLETED,
              !.completed_at = t,
              !.execution_time_seconds = t - j.started_at,
              !.current_stage = 8,
              !.progress_percentage = 100,
              !.result = TRUE]

\* run_deep_research, lines 153-163: mark as completed, commit
TaskComplete ==
    /\ JobStep
    /\ taskPc = "complete"
    /\ job' = MarkCompleted(job, now)
    /\ completedAtWrites' = completedAtWrites + 1
    /\ taskPc' = "succeeded"
    /\ UNCHANGED <<jobExists, now, submitPc, verbose, taskStage, revoked,
                   cancelPc, cancelJob, cancelCount, cancelReply>>

\* CallbackTask.on_failure: the job is looked up by celery_task_id
on_failure ==
    /\ JobStep
    /\ taskPc = "raised"
    /\ IF jobExists /\ job.celery_task_id
       THEN /\ job' = [job EXCEPT !.status = FAILED,
                                  !.error_message = TRUE,
                                  !.completed_at = now,
                                  !.execution_time_seconds =
                                      IF job.started_at # NULL
                                      THEN now - job.started_at
                                      ELSE job.execution_time_seconds]
            /\ completedAtWrites' = completedAtWrites + 1
       ELSE UNCHANGED <<job, completedAtWrites>>
    /\ taskPc' = "failed"
    /\ UNCHANGED <<jobExists, now, submitPc, verbose, taskStage, revoked,
                   cancelPc, cancelJob, cancelCount, cancelReply>>

\* CannotCancel without the CANCELLED case
CannotCancelForgetsCancelled(st) == st \in {COMPLETED, FAILED}

\* cancel_job, line 1092: the statuses for which cancel answers success = False
CannotCancel(st) == st \in {COMPLETED, FAILED, CANCELLED}

\* cancel_job, lines 1087-1089: no row with this id, 404, nothing is written
CancelNotFound ==
    /\ JobStep
    /\ cancelPc = "idle"
    /\ cancelCount < MaxCancels
    /\ ~jobExists
    /\ cancelCount' = cancelCount + 1
    /\ cancelReply' = "not_found"
    /\ UNCHANGED <<job, jobExists, now, submitPc, verbose, taskPc, taskStage, revoked,
                   cancelPc, cancelJob, completedAtWrites>>

\* cancel_job, lines 1087-1099: load the job, refuse a terminal one, revoke
CancelRead ==
    /\ JobStep
    /\ cancelPc = "idle"
    /\ cancelCount < MaxCancels
    /\ jobExists
    /\ cancelCount' = cancelCount + 1
    /\ cancelJob' = job
    /\ IF CannotCancel(job.status)
       THEN /\ cancelReply' = "false"
            /\ cancelPc' = "idle"
            /\ UNCHANGED revoked
       ELSE /\ cancelReply' = "none"
            /\ cancelPc' = "loaded"
            /\ revoked' = (revoked \/ job.celery_task_id)
    /\ UNCHANGED <<job, jobExists, now, submitPc, verbose, taskPc, taskStage,
                   completedAtWrites>>

\* cancel_job, lines 1101-1106: set the three columns from the loaded object, commit
CancelCommit ==
    /\ JobStep
    /\ cancelPc = "loaded"
    /\ job' = [job EXCEPT !.status = CANCELLED,
                          !.completed_at = now,
                          !.execution_time_seconds =
                              IF cancelJob.started_at # NULL
                              THEN now - cancelJob.started_at
                              ELSE job.execution_time_seconds]
    /\ completedAtWrites' = completedAtWrites + 1
    /\ cancelReply' = "true"
    /\ cancelPc' = "idle"
    /\ UNCHANGED <<jobExists, now, submitPc, verbose, taskPc, taskStage, revoked,
                   cancelJob, cancelCount>>

\* effect of revoke on a task still waiting in the queue: the worker drops it
RevokeDiscard ==
    /\ JobStep
    /\ revoked
    /\ taskPc = "queued"
    /\ taskPc' = "discarded"
    /\ UNCHANGED <<job, jobExists, now, submitPc, verbose, taskStage, revoked,
                   cancelPc, cancelJob, cancelCount, cancelReply, completedAtWrites>>

\* effect of revoke(terminate=True) on a task in execution: its process is
\* signalled and stops wherever it is, without running on_failure
RevokeTerminate ==
    /\ JobStep
    /\ revoked
    /\ taskPc \in TaskActive
    /\ taskPc' = "terminated"
    /\ UNCHANGED <<job, jobExists, now, submitPc, verbose, taskStage, revoked,
                   cancelPc, cancelJob, cancelCount, cancelReply, completedAtWrites>>


(***************************************************************************)
(* Part II - the auto-retry loop of POST /execute                          *)
(***************************************************************************)

max_retries == 2

\* code strings; 0 stands for the empty string, which Python treats as false
Codes == 0..MaxCode
\* Python None as a fixer result
NoCode == -1

\* error text of an execution result: None, the empty string, or a message
ErrorTexts == {"None", "empty", "text"}

\* values of ExecutionStatus
ExecutionStatuses == {"PENDING", "RUNNING", "SUCCESS", "FAILED", "TIMEOUT"}

\* the statuses of a finished execution
FinalStatuses == {"SUCCESS", "FAILED", "TIMEOUT"}

\* what the code left in "result": nothing, a dict, or another non-empty
\* value (a list of records, a number, a string)
OutputKinds == {"None", "dict", "other"}

\* an execution result without the keys of a successful run
Unsuccessful(st, err) ==
    [status |-> st, error |-> err, output |-> "None", visualizations |-> "None",
     model |-> FALSE]

\* results CodeExecutorService.execute_python can return: SUCCESS carries no
\* error, the output, the list of visualizations and whether the code set
\* "model"; TIMEOUT carries the timeout message, FAILED carries str(e) (which
\* is empty for an exception raised without a message)
ExecResults ==
    {[status |-> "SUCCESS", error |-> "None", output |-> o,
      visualizations |-> "list", model |-> m] : o \in OutputKinds, m \in BOOLEAN}
    \cup {Unsuccessful("TIMEOUT", "text"),
          Unsuccessful("FAILED", "text"),
          Unsuccessful("FAILED", "empty")}

NoResult == Unsuccessful("none", "None")

\* an executor call that raised instead of returning: str(e) is its message
Raised == Unsuccessful("raised", "text")

\* Python truthiness of an error text / of a fixer result
ErrorTruthy(e) == e = "text"
CodeTruthy(c) == c # NoCode /\ c # 0

\* CodeFixerService.common_fixes: the five pattern rules, tried in this order
NumFixers == 5

\* what the five rules can return for a code: each returns the code unchanged
\* or a non-empty rewrite; _fix_missing_column_quotes always returns the code
RuleOutputs(code) ==
    {outs \in [1..NumFixers -> Codes] :
        /\ outs[3] = code
        /\ \A i \in 1..NumFixers : outs[i] = code \/ outs[i] # 0}

\* CodeFixerService.attempt_fix: the output of the first rule that differs
\* from the code, None if there is none
AttemptFix(code, outs) ==
    LET changed == {i \in 1..NumFixers : outs[i] # code}
    IN IF changed = {}
       THEN NoCode
       ELSE outs[CHOOSE i \in changed : \A j \in changed : i <= j]

\* NeedsLlmFix that asks the oracle after every failure
NeedsLlmFixAlways(fixed_code, code) == TRUE

\* line 189: "if not fixed_code or fixed_code == current_code"
NeedsLlmFix(fixed_code, code) == ~CodeTruthy(fixed_code) \/ fixed_code = code

\* CodeFixerService.attempt_fix_with_llm: None, or whatever text the oracle
\* returned (possibly the same code, possibly empty after stripping)
LlmFixResults == {NoCode} \cup Codes

\* LoopIterations with an off-by-one range
LoopIterationsOneMore == max_retries + 2

\* number of iterations of "for attempt in range(max_retries + 1)"
LoopIterations == max_retries + 1

\* a step of Part II leaves the other parts alone
RepairStep == UNCHANGED <<jobVars, pipeVars, exeVars, streamVars, parseVars,
                          decompVars, workflowVars, raceVars>>

RepairIdle ==
    /\ rec = [execution_status |-> "PENDING", generated_code |-> 1,
              error_message |-> "None", result_summary |-> "None",
              visualizations |-> "None", completed |-> FALSE]
    /\ exPc = "idle"
    /\ attempt = 0
    /\ current_code = 0
    /\ exec_result = NoResult
    /\ codesRun = << >>
    /\ resultsRun = << >>
    /\ fixLog = << >>

\* the record as left by /generate: generated code stored, status any value an
\* earlier request can have left
RepairInit ==
    /\ \E c \in Codes \ {0}, st \in ExecutionStatuses :
          rec = [execution_status |-> st, generated_code |-> c,
                 error_message |-> "None", result_summary |-> "None",
                 visualizations |-> "None", completed |-> FALSE]
    /\ exPc = "idle"
    /\ attempt = 0
    /\ current_code = 0
    /\ exec_result = NoResult
    /\ codesRun = << >>
    /\ resultsRun = << >>
    /\ fixLog = << >>

\* execute_python_code, lines 144-165: reject a RUNNING record, else mark it
\* RUNNING, commit, and enter the loop with the stored code
ExecuteBegin ==
    /\ RepairStep
    /\ exPc = "idle"
    /\ IF rec.execution_status = "RUNNING"
       THEN /\ exPc' = "rejected"
            /\ UNCHANGED <<rec, attempt, current_code>>
       ELSE /\ exPc' = "execute"
            /\ rec' = [rec EXCEPT !.execution_status = "RUNNING"]
            /\ attempt' = 0
            /\ current_code' = rec.generated_code
    /\ UNCHANGED <<exec_result, codesRun, resultsRun, fixLog>>

\* leaving iteration "attempt" without break: next iteration or loop exhausted
NextIterationPc(a) == IF a + 1 < LoopIterations THEN "execute" ELSE "record"
NextAttempt(a) == IF a + 1 < LoopIterations THEN a + 1 ELSE a

\* lines 171-178 and the fall-through of line 181: one executor call; the call
\* returns a result or raises (dataset file unreadable, before its own try)
ExecuteAttempt ==
    /\ RepairStep
    /\ exPc = "execute"
    /\ codesRun' = Append(codesRun, current_code)
    /\ \/ /\ exPc' = "except"
          /\ resultsRun' = Append(resultsRun, Raised)
          /\ UNCHANGED <<exec_result, attempt>>
       \/ \E r \in ExecResults :
             /\ exec_result' = r
             /\ resultsRun' = Append(resultsRun, r)
             /\ IF r.status = "SUCCESS"
                THEN exPc' = "record" /\ UNCHANGED attempt
                ELSE IF attempt < max_retries /\ ErrorTruthy(r.error)
                THEN exPc' = "fix" /\ UNCHANGED attempt
                ELSE /\ exPc' = NextIterationPc(attempt)
                     /\ attempt' = NextAttempt(attempt)
    /\ UNCHANGED <<rec, current_code, fixLog>>

\* RecordAfterFix that writes the fixed code over the stored code
RecordAfterFixInPlace(r, fixed_code) ==
    IF CodeTruthy(fixed_code) THEN [r EXCEPT !.generated_code = fixed_code] ELSE r

\* lines 186-204 assign the locals fixed_code and current_code only: the
\* fixers return new strings and the record is not written
RecordAfterFix(r, fixed_code) == r

\* lines 186-204: pattern fix first, oracle fix if it gave nothing new;
\* continue with the fixed code or break
ExecuteFix ==
    /\ RepairStep
    /\ exPc = "fix"
    /\ \E outs \in RuleOutputs(current_code), lf \in LlmFixResults :
          LET pf == AttemptFix(current_code, outs)
              usesLlm == NeedsLlmFix(pf, current_code)
              fixed_code == IF usesLlm THEN lf ELSE pf
          IN /\ fixLog' = Append(fixLog, [pattern |-> pf,
                                          llm |-> IF usesLlm THEN lf ELSE NoCode,
                                          llmCalled |-> usesLlm,
                                          before |-> current_code,
                                          ruleChanged |->
                                              \E i \in 1..NumFixers :
                                                  outs[i] # current_code,
                                          attempt |-> attempt])
             /\ IF CodeTruthy(fixed_code) /\ fixed_code # current_code
                THEN /\ current_code' = fixed_code
                     /\ attempt' = NextAttempt(attempt)
                     /\ exPc' = NextIterationPc(attempt)
                ELSE /\ exPc' = "record"
                     /\ UNCHANGED <<current_code, attempt>>
             /\ rec' = RecordAfterFix(rec, fixed_code)
    /\ UNCHANGED <<exec_result, codesRun, resultsRun>>

\* lines 209-215: the columns assigned from the last result
RecordResult(r, res) ==
    [r EXCEPT !.execution_status = res.status,
              !.error_message = res.error,
              !.result_summary = res.output,
              !.visualizations = res.visualizations,
              !.completed = TRUE]

\* lines 218-222: "if exec_result.get('model') and exec_result['output']" then
\* "exec_result['output'].get('model_metadata', {})", which raises
\* AttributeError when the output is not a dict
SaveModelRaises(res) == res.model /\ res.output = "other"

\* lines 249-254, reached from line 222: the except block overwrites status
\* and error_message of the columns already assigned and commits
RecordError(r) ==
    [r EXCEPT !.execution_status = "FAILED",
              !.error_message = "text",
              !.completed = TRUE]

\* ExecuteRecord that stores what the first attempt returned
ExecuteRecordFirstAttempt ==
    /\ RepairStep
    /\ exPc = "record"
    /\ IF SaveModelRaises(exec_result)
       THEN /\ rec' = RecordError(RecordResult(rec, resultsRun[1]))
            /\ exPc' = "http500"
       ELSE /\ rec' = RecordResult(rec, resultsRun[1])
            /\ exPc' = "returned"
    /\ UNCHANGED <<attempt, current_code, exec_result, codesRun, resultsRun, fixLog>>

\* lines 206-247: store the last result in the record, commit, respond; an
\* exception before the commit goes through the except block of lines 249-256
ExecuteRecord ==
    /\ RepairStep
    /\ exPc = "record"
    /\ IF SaveModelRaises(exec_result)
       THEN /\ rec' = RecordError(RecordResult(rec, exec_result))
            /\ exPc' = "http500"
       ELSE /\ rec' = RecordResult(rec, exec_result)
            /\ exPc' = "returned"
    /\ UNCHANGED <<attempt, current_code, exec_result, codesRun, resultsRun, fixLog>>

\* lines 249-256: an exception inside the try marks the record FAILED, 500
ExecuteExcept ==
    /\ RepairStep
    /\ exPc = "except"
    /\ rec' = [rec EXCEPT !.execution_status = "FAILED",
                          !.error_message = "text",
                          !.completed = TRUE]
    /\ exPc' = "http500"
    /\ UNCHANGED <<attempt, current_code, exec_result, codesRun, resultsRun, fixLog>>

RepairNext ==
    ExecuteBegin \/ ExecuteAttempt \/ ExecuteFix \/ ExecuteRecord \/ ExecuteExcept

(***************************************************************************)
(* Part III - the pipeline DeepResearchService.research                    *)
(***************************************************************************)

IntentTypes == {"descriptive", "comparative", "causal", "trend_analysis",
                "anomaly_detection", "forecasting", "segmentation"}
Categories == {"data_backed", "world_knowledge", "insufficient_data", "mixed"}
Feasibilities == {"high", "medium", "low", "impossible"}

\* the values the pipeline runs of the model draw questions from: one intent
\* and one feasibility on each side of the tests of _execute_queries
RunIntents == {"descriptive", "causal"}
RunFeasibilities == {"high", "low"}

\* Eligible that looks at the feasibility only
EligibleByFeasibility(cq) == cq.feasibility \in {"high", "medium"}

\* _execute_queries, line 392
Eligible(cq) ==
    cq.category \in {"data_backed", "mixed"} /\ cq.feasibility \in {"high", "medium"}

\* UsePython that ignores the enable_python switch
UsePythonIgnoresSwitch(cq, enablePython) ==
    cq.intent_type \in {"causal", "forecasting", "anomaly_detection", "trend_analysis"}

\* _execute_queries, lines 394-396
UsePython(cq, enablePython) ==
    enablePython /\ cq.intent_type \in {"causal", "forecasting",
                                        "anomaly_detection", "trend_analysis"}

\* how the calls made by _execute_sql_query can end
SqlOutcomes == {"generate_raises", "query_raises", "ok"}
\* how the calls made by _execute_python_analysis can end
PythonOutcomes == {"generate_raises", "execute_raises", "SUCCESS", "FAILED", "TIMEOUT"}

\* AnalysisResult: data and error default to None
AnalysisResult(q, m, ok, data, err) ==
    [question |-> q, method |-> m, success |-> ok, data |-> data, error |-> err]

\* ExecuteSqlQuery without its try/except: an exception propagates
ExecuteSqlQueryUnguarded(q, outcome) ==
    [raised |-> outcome # "ok",
     result |-> AnalysisResult(q, "sql", TRUE, "rows", "None"),
     oracle_calls |-> 1,
     queries |-> IF outcome = "generate_raises" THEN 0 ELSE 1,
     executions |-> 0, fixes |-> 0]

\* _execute_sql_query: every exception becomes a failed AnalysisResult
ExecuteSqlQuery(q, outcome) ==
    [raised |-> FALSE,
     result |-> IF outcome = "ok"
                THEN AnalysisResult(q, "sql", TRUE, "rows", "None")
                ELSE AnalysisResult(q, "sql", FALSE, "None", "text"),
     oracle_calls |-> 1,
     queries |-> IF outcome = "generate_raises" THEN 0 ELSE 1,
     executions |-> 0, fixes |-> 0]

\* _execute_python_analysis: code generation, then ONE call of
\* code_executor.execute_python; every exception becomes a failed result
ExecutePythonAnalysis(q, outcome) ==
    [raised |-> FALSE,
     result |-> IF outcome = "SUCCESS"
                THEN AnalysisResult(q, "python", TRUE, "output", "None")
                ELSE AnalysisResult(q, "python", FALSE, "None", "text"),
     oracle_calls |-> 1,
     queries |-> 0,
     executions |-> IF outcome = "generate_raises" THEN 0 ELSE 1,
     fixes |-> 0]

\* _enrich_world_knowledge: the questions sent to the oracle
EnrichBatch(cls) ==
    {i \in 1..Len(cls) : cls[i].category \in {"world_knowledge", "mixed"}}

\* how the oracle call of _enrich_world_knowledge can end
EnrichOutcomes == {"ok", "call_fails", "parse_fails"}

\* _enrich_world_knowledge: _call_llm and _parse_json_response are not guarded
EnrichWorldKnowledge(cls, outcome) ==
    IF EnrichBatch(cls) = {}
    THEN [raised |-> FALSE, value |-> "empty"]
    ELSE IF outcome = "ok"
    THEN [raised |-> FALSE, value |-> "parsed"]
    ELSE [raised |-> TRUE, value |-> "unset"]

\* a synthesis dict: whether it has the key supporting_details, and its value
NoSynthesis == [has_details |-> FALSE, details |-> << >>]

\* a step of Part III leaves the other parts alone
PipeStep == UNCHANGED <<jobVars, repairVars, exeVars, streamVars, parseVars,
                        decompVars, workflowVars, raceVars>>

PipeIdle ==
    /\ pipePc = "idle"
    /\ enable_python = TRUE
    /\ enable_world_knowledge = TRUE
    /\ verbose_mode = TRUE
    /\ sub_questions = << >>
    /\ classified = << >>
    /\ dispatchIdx = 1
    /\ results = << >>
    /\ dispatchLog = << >>
    /\ world_knowledge = "unset"
    /\ enrichOutcome = "none"
    /\ raisedAt = "none"
    /\ stageTrace = << >>
    /\ decomposeOutcome = "none"
    /\ oracle_synthesis = NoSynthesis
    /\ supporting_details = << >>

\* a call of research() with its three switches
PipeInit ==
    /\ pipePc = "load_schema"
    /\ enable_python \in BOOLEAN
    /\ enable_world_knowledge \in BOOLEAN
    /\ verbose_mode \in BOOLEAN
    /\ sub_questions = << >>
    /\ classified = << >>
    /\ dispatchIdx = 1
    /\ results = << >>
    /\ dispatchLog = << >>
    /\ world_knowledge = "unset"
    /\ enrichOutcome = "none"
    /\ raisedAt = "none"
    /\ stageTrace = << >>
    /\ decomposeOutcome = "none"
    /\ oracle_synthesis = NoSynthesis
    /\ supporting_details = << >>

\* _execute_queries entered with one classified question of any category,
\* feasibility (or the default "unknown") and intent
RouteInit ==
    /\ pipePc = "dispatch"
    /\ enable_python \in BOOLEAN
    /\ enable_world_knowledge = TRUE
    /\ verbose_mode = FALSE
    /\ \E intent \in IntentTypes, cat \in Categories,
          feas \in Feasibilities \cup {"unknown"} :
          /\ sub_questions = <<intent>>
          /\ classified = <<[sub_question |-> 1, intent_type |-> intent,
                              question_number |-> 1,
                              category |-> cat, feasibility |-> feas]>>
    /\ dispatchIdx = 1
    /\ results = << >>
    /\ dispatchLog = << >>
    /\ world_knowledge = "unset"
    /\ enrichOutcome = "none"
    /\ raisedAt = "none"
    /\ stageTrace = <<"decompose", "classify">>
    /\ decomposeOutcome = "none"
    /\ oracle_synthesis = NoSynthesis
    /\ supporting_details = << >>

\* an exception leaves research() from the given stage
Raise(stage) ==
    /\ pipePc' = "raised"
    /\ raisedAt' = stage

\* line 108: storage_service.load_schema
LoadSchema ==
    /\ PipeStep
    /\ UNCHANGED <<decomposeOutcome, oracle_synthesis, supporting_details>>
    /\ pipePc = "load_schema"
    /\ \/ Raise("load_schema")
       \/ pipePc' = "decompose" /\ UNCHANGED raisedAt
    /\ UNCHANGED <<enable_python, enable_world_knowledge, verbose_mode, sub_questions,
                   classified, dispatchIdx, results, dispatchLog, world_knowledge,
                   enrichOutcome, stageTrace>>

\* how the oracle call of _decompose_question can end: the call fails, the
\* text is not JSON, the JSON has no key sub_questions, an entry lacks
\* question, intent_type or desired_output, or the list is well formed
DecomposeResponses ==
    {"call_fails", "not_json", "no_list", "entry_lacks_field", "well_formed"}

\* _decompose_question, lines 304-316: raise_for_status, json.loads and
\* sq['question'] raise; parsed.get('sub_questions', []) does not
DecomposeQuestion(response, sqs) ==
    IF response \in {"call_fails", "not_json", "entry_lacks_field"}
    THEN [raised |-> TRUE, value |-> << >>]
    ELSE IF response = "no_list"
    THEN [raised |-> FALSE, value |-> << >>]
    ELSE [raised |-> FALSE, value |-> sqs]

\* stage 1, _decompose_question: the oracle's list of sub-questions, or an
\* exception (oracle call failed, response not parsable, field missing)
Decompose ==
    /\ PipeStep
    /\ UNCHANGED <<oracle_synthesis, supporting_details>>
    /\ pipePc = "decompose"
    /\ stageTrace' = Append(stageTrace, "decompose")
    /\ \E response \in DecomposeResponses, n \in 0..MaxQuestions :
          \E sqs \in [1..n -> RunIntents] :
             LET d == DecomposeQuestion(response, sqs) IN
             /\ decomposeOutcome' = response
             /\ IF d.raised
                THEN Raise("decompose") /\ UNCHANGED sub_questions
                ELSE /\ sub_questions' = d.value
                     /\ pipePc' = "classify"
                     /\ UNCHANGED raisedAt
    /\ UNCHANGED <<enable_python, enable_world_knowledge, verbose_mode,
                   classified, dispatchIdx, results, dispatchLog, world_knowledge,
                   enrichOutcome>>

\* the i-th smallest element of a set of numbers
NthSmallest(S, i) == CHOOSE x \in S : Cardinality({y \in S : y < x}) = i - 1

\* _classify_and_map, lines 365-378: enumerate(classifications) pairs entry i
\* with sub_questions[i]; question_number is not read (kept here as history)
ClassifyAndMap(sqs, classifications) ==
    [i \in 1..Len(classifications) |->
        [sub_question |-> i,
         intent_type |-> sqs[i],
         question_number |-> classifications[i].question_number,
         category |-> classifications[i].category,
         feasibility |-> classifications[i].feasibility]]

\* stage 2, _classify_and_map: the i-th classification of the oracle is paired
\* with the i-th sub-question; classifications beyond the list are ignored
Classify ==
    /\ PipeStep
    /\ UNCHANGED <<decomposeOutcome, oracle_synthesis, supporting_details>>
    /\ pipePc = "classify"
    /\ stageTrace' = Append(stageTrace, "classify")
    /\ \/ Raise("classify") /\ UNCHANGED classified
       \/ /\ \E answered \in SUBSET (1..Len(sub_questions)) :
                \E cs \in [1..Cardinality(answered) ->
                               [category : Categories, feasibility : RunFeasibilities]] :
                   classified' =
                       ClassifyAndMap(sub_questions,
                                      [i \in 1..Cardinality(answered) |->
                                          [question_number |-> NthSmallest(answered, i),
                                           category |-> cs[i].category,
                                           feasibility |-> cs[i].feasibility]])
          /\ pipePc' = "dispatch"
          /\ UNCHANGED raisedAt
    /\ UNCHANGED <<enable_python, enable_world_knowledge, verbose_mode, sub_questions,
                   dispatchIdx, results, dispatchLog, world_knowledge, enrichOutcome>>

\* _execute_queries, lines 419-424: the result built for an insufficient_data
\* question, without any call
InsufficientData(q) == AnalysisResult(q, "none", FALSE, "None", "insufficient")

\* the outcome of dispatching one eligible question
DispatchEligible(cq) ==
    IF UsePython(cq, enable_python)
    THEN {[outcome |-> o, r |-> ExecutePythonAnalysis(cq.sub_question, o)] :
             o \in PythonOutcomes}
    ELSE {[outcome |-> o, r |-> ExecuteSqlQuery(cq.sub_question, o)] :
             o \in SqlOutcomes}

\* stage 3, one iteration of the loop of _execute_queries
DispatchQuestion ==
    /\ PipeStep
    /\ UNCHANGED <<decomposeOutcome, oracle_synthesis, supporting_details>>
    /\ pipePc = "dispatch"
    /\ dispatchIdx <= Len(classified)
    /\ stageTrace' = IF dispatchIdx = 1 THEN Append(stageTrace, "dispatch") ELSE stageTrace
    /\ LET cq == classified[dispatchIdx] IN
       IF Eligible(cq)
       THEN \E d \in DispatchEligible(cq) :
               IF d.r.raised
               THEN /\ Raise("dispatch")
                    /\ UNCHANGED <<results, dispatchLog, dispatchIdx>>
               ELSE /\ results' = Append(results, d.r.result)
                    /\ dispatchLog' = Append(dispatchLog,
                                         [outcome |-> d.outcome,
                                          oracle_calls |-> d.r.oracle_calls,
                                          queries |-> d.r.queries,
                                          executions |-> d.r.executions,
                                          fixes |-> d.r.fixes])
                    /\ dispatchIdx' = dispatchIdx + 1
                    /\ UNCHANGED <<pipePc, raisedAt>>
       ELSE IF cq.category = "insufficient_data"
       THEN /\ results' = Append(results, InsufficientData(cq.sub_question))
            /\ dispatchLog' = Append(dispatchLog,
                                 [outcome |-> "insufficient_data",
                                  oracle_calls |-> 0, queries |-> 0,
                                  executions |-> 0, fixes |-> 0])
            /\ dispatchIdx' = dispatchIdx + 1
            /\ UNCHANGED <<pipePc, raisedAt>>
       ELSE /\ dispatchIdx' = dispatchIdx + 1
            /\ UNCHANGED <<results, dispatchLog, pipePc, raisedAt>>
    /\ UNCHANGED <<enable_python, enable_world_knowledge, verbose_mode, sub_questions,
                   classified, world_knowledge, enrichOutcome>>

\* stage 3 ends: _execute_queries returns the result list
DispatchReturn ==
    /\ PipeStep
    /\ UNCHANGED <<decomposeOutcome, oracle_synthesis, supporting_details>>
    /\ pipePc = "dispatch"
    /\ dispatchIdx > Len(classified)
    /\ stageTrace' = IF classified = << >> THEN Append(stageTrace, "dispatch") ELSE stageTrace
    /\ pipePc' = "enrich"
    /\ UNCHANGED <<enable_python, enable_world_knowledge, verbose_mode, sub_questions,
                   classified, dispatchIdx, results, dispatchLog, world_knowledge,
                   enrichOutcome, raisedAt>>

\* stage 4, lines 137-149: enrichment, or {} when it is switched off
Enrich ==
    /\ PipeStep
    /\ UNCHANGED <<decomposeOutcome, oracle_synthesis, supporting_details>>
    /\ pipePc = "enrich"
    /\ stageTrace' = Append(stageTrace, "enrich")
    /\ IF ~enable_world_knowledge
       THEN /\ world_knowledge' = "empty"
            /\ pipePc' = "synthesize"
            /\ UNCHANGED <<enrichOutcome, raisedAt>>
       ELSE \E o \in EnrichOutcomes :
               LET e == EnrichWorldKnowledge(classified, o) IN
               /\ enrichOutcome' = IF EnrichBatch(classified) = {} THEN "no_call" ELSE o
               /\ IF e.raised
                  THEN Raise("enrich") /\ UNCHANGED world_knowledge
                  ELSE /\ world_knowledge' = e.value
                       /\ pipePc' = "synthesize"
                       /\ UNCHANGED raisedAt
    /\ UNCHANGED <<enable_python, enable_world_knowledge, verbose_mode, sub_questions,
                   classified, dispatchIdx, results, dispatchLog>>

\* one record of supporting_details, lines 596-602
SupportingDetail(r) ==
    [question |-> r.question,
     method |-> r.method,
     success |-> r.success,
     data |-> IF r.success THEN r.data ELSE "None",
     error |-> IF ~r.success THEN r.error ELSE "None"]

\* SupportingDetails that lists successful results only
SupportingDetailsOfSuccesses(rs) ==
    LET ok == SelectSeq(rs, LAMBDA r : r.success)
    IN [i \in 1..Len(ok) |-> SupportingDetail(ok[i])]

\* the list comprehension of lines 595-604: one record per result, in order
SupportingDetails(rs) == [i \in 1..Len(rs) |-> SupportingDetail(rs[i])]

\* what _parse_json_response can return for the oracle's synthesis: a dict
\* without the key supporting_details, or with the key holding a list of the
\* oracle's own making (empty, or the records in reverse order)
ParsedSyntheses(rs) ==
    {NoSynthesis,
     [has_details |-> TRUE, details |-> << >>],
     [has_details |-> TRUE,
      details |-> [i \in 1..Len(rs) |-> SupportingDetail(rs[Len(rs) + 1 - i])]]}

\* SetSupportingDetails that keeps a supporting_details key of the oracle
SetSupportingDetailsDefault(synthesis, rs) ==
    IF synthesis.has_details
    THEN synthesis
    ELSE [synthesis EXCEPT !.has_details = TRUE, !.details = SupportingDetails(rs)]

\* line 595: synthesis['supporting_details'] = [...], whatever the dict held
SetSupportingDetails(synthesis, rs) ==
    [synthesis EXCEPT !.has_details = TRUE, !.details = SupportingDetails(rs)]

\* research(), line 230: synthesis.get('supporting_details', {})
SynthesisGet(synthesis) ==
    IF synthesis.has_details THEN synthesis.details ELSE << >>

\* stage 5, _synthesize_insights
Synthesize ==
    /\ PipeStep
    /\ UNCHANGED decomposeOutcome
    /\ pipePc = "synthesize"
    /\ stageTrace' = Append(stageTrace, "synthesize")
    /\ \/ Raise("synthesize") /\ UNCHANGED <<oracle_synthesis, supporting_details>>
       \/ \E parsed \in ParsedSyntheses(results) :
             /\ oracle_synthesis' = parsed
             /\ supporting_details' = SynthesisGet(SetSupportingDetails(parsed, results))
             /\ pipePc' = "follow_up"
             /\ UNCHANGED raisedAt
    /\ UNCHANGED <<enable_python, enable_world_knowledge, verbose_mode, sub_questions,
                   classified, dispatchIdx, results, dispatchLog, world_knowledge,
                   enrichOutcome>>

\* AfterFollowUps that runs the verbose stage whatever the switch says
AfterFollowUpsAlwaysVerbose(verboseMode) == "verbose"

\* research(), line 173: stage 7 runs only "if verbose_mode"
AfterFollowUps(verboseMode) == IF verboseMode THEN "verbose" ELSE "returned"

\* stage 6, _suggest_follow_ups
FollowUps ==
    /\ PipeStep
    /\ UNCHANGED <<decomposeOutcome, oracle_synthesis, supporting_details>>
    /\ pipePc = "follow_up"
    /\ stageTrace' = Append(stageTrace, "follow_up")
    /\ \/ Raise("follow_up")
       \/ /\ pipePc' = AfterFollowUps(verbose_mode)
          /\ UNCHANGED raisedAt
    /\ UNCHANGED <<enable_python, enable_world_knowledge, verbose_mode, sub_questions,
                   classified, dispatchIdx, results, dispatchLog, world_knowledge,
                   enrichOutcome>>

\* stage 7, _generate_verbose_analysis, only in verbose mode
VerboseAnalysis ==
    /\ PipeStep
    /\ UNCHANGED <<decomposeOutcome, oracle_synthesis, supporting_details>>
    /\ pipePc = "verbose"
    /\ stageTrace' = Append(stageTrace, "verbose")
    /\ \/ Raise("verbose")
       \/ pipePc' = "returned" /\ UNCHANGED raisedAt
    /\ UNCHANGED <<enable_python, enable_world_knowledge, verbose_mode, sub_questions,
                   classified, dispatchIdx, results, dispatchLog, world_knowledge,
                   enrichOutcome>>

PipeNext ==
    \/ LoadSchema \/ Decompose \/ Classify \/ DispatchQuestion \/ DispatchReturn
    \/ Enrich \/ Synthesize \/ FollowUps \/ VerboseAnalysis

(***************************************************************************)
(* Part IV - the sandboxed executor CodeExecutorService.execute_python     *)
(***************************************************************************)

\* self.max_timeout_seconds
max_timeout_seconds == 120
\* the default of line 171
DefaultTimeout == 60
\* signal.alarm hands its int argument to alarm(unsigned int seconds): 32
\* bits, kept here as two halves of 16 bits
HalfWord == 65536

\* the timeout_sec argument: absent, or an int
NoTimeout == [given |-> FALSE, value |-> 0]
TimeoutRequests ==
    {NoTimeout} \cup
    {[given |-> TRUE, value |-> t] :
        t \in {-1, 0, 1, DefaultTimeout, max_timeout_seconds, max_timeout_seconds + 1}}

\* lines 170-174: the default and the ceiling
EffectiveTimeout(req) ==
    IF ~req.given
    THEN DefaultTimeout
    ELSE IF req.value > max_timeout_seconds
    THEN max_timeout_seconds
    ELSE req.value

\* timeout_context, line 153: signal.alarm(seconds); the value is the number
\* of seconds until SIGALRM as an unsigned 32-bit number, and 0 arms nothing
Alarm(seconds) ==
    [hi |-> (seconds \div HalfWord) % HalfWord, lo |-> seconds % HalfWord]

NoAlarm == [hi |-> 0, lo |-> 0]

\* the keys of safe_builtins, lines 180-203
SafeBuiltins ==
    {"abs", "all", "any", "ascii", "bin", "bool", "bytearray", "bytes", "chr",
     "complex", "dict", "divmod", "enumerate", "filter", "float", "format",
     "frozenset", "hash", "hex", "int", "isinstance", "issubclass", "iter",
     "len", "list", "map", "max", "min", "next", "object", "oct", "ord", "pow",
     "print", "range", "repr", "reversed", "round", "set", "slice", "sorted",
     "str", "sum", "tuple", "type", "zip", "True", "False", "None",
     "__import__", "ImportError", "NameError", "Exception", "ValueError",
     "KeyError", "TypeError", "AttributeError"}

\* the keys of exec_globals other than __builtins__, lines 235-255
LibraryHandles ==
    {"pd", "np", "sklearn", "scipy", "statsmodels", "plt", "sns", "xgboost",
     "xgb", "lightgbm", "lgb", "duckdb", "duckdb_conn", "parquet_path", "df",
     "result", "model", "plot_base64"}

\* every name the executed code can use
BoundNames == SafeBuiltins \cup LibraryHandles

Capabilities == {"filesystem", "process", "network"}

\* what a bound name gives access to: __import__ is the real import function
\* (line 195), so os, subprocess and socket can be imported; pd and duckdb
\* read files by path, as lines 225 and 230 do themselves
Grants(name) ==
    IF name = "__import__" THEN {"filesystem", "process", "network"}
    ELSE IF name \in {"pd", "duckdb", "duckdb_conn"} THEN {"filesystem"}
    ELSE {}

\* Python values the code can bind to result: a kind, and for containers the
\* kind of their keys and of their elements
LeafKinds == {"none", "str", "int", "float", "nan", "np_int", "np_float", "np_nan",
              "object"}
Leaf(k) == [kind |-> k, key |-> "-", elem |-> "-"]
ResultValues ==
    {Leaf(k) : k \in LeafKinds}
    \cup {[kind |-> "list", key |-> "-", elem |-> e] : e \in {"int", "nan", "np_nan", "object"}}
    \cup {[kind |-> "dict", key |-> k, elem |-> e] :
             k \in {"str", "int", "tuple"}, e \in {"int", "nan"}}
    \cup {[kind |-> "ndarray", key |-> "-", elem |-> e] : e \in {"np_int", "np_nan"}}
    \cup {[kind |-> "dataframe", key |-> "str", elem |-> e] : e \in {"int", "nan", "object"}}
    \cup {[kind |-> "series", key |-> "-", elem |-> e] : e \in {"np_float", "np_nan"}}

\* make_json_serializable on a scalar, lines 370-388 in the order of the tests:
\* numpy integers and floats become int(obj) and float(obj) (a numpy NaN is a
\* numpy float, so it becomes float('nan')), then pd.isna gives None, then
\* str, int, float, bool, None are kept and anything else becomes str(obj)
SerializeLeaf(k) ==
    IF k = "np_int" THEN "int"
    ELSE IF k = "np_float" THEN "float"
    ELSE IF k = "np_nan" THEN "nan"
    ELSE IF k \in {"nan", "none"} THEN "none"
    ELSE IF k \in {"str", "int", "float"} THEN k
    ELSE "str"

\* ndarray.tolist() and Series.tolist(): numpy scalars become Python scalars,
\* the values themselves are not looked at
ToList(k) ==
    IF k = "np_int" THEN "int"
    ELSE IF k = "np_float" THEN "float"
    ELSE IF k = "np_nan" THEN "nan"
    ELSE k

\* make_json_serializable, lines 352-388
make_json_serializable(v) ==
    IF v.kind = "dict"
    THEN [kind |-> "dict",
          key |-> IF v.key = "tuple" THEN "str" ELSE v.key,
          elem |-> SerializeLeaf(v.elem)]
    ELSE IF v.kind = "list"
    THEN [kind |-> "list", key |-> "-", elem |-> SerializeLeaf(v.elem)]
    ELSE IF v.kind \in {"ndarray", "series"}
    THEN [kind |-> "list", key |-> "-", elem |-> ToList(v.elem)]
    ELSE IF v.kind = "dataframe"
    THEN [kind |-> "records", key |-> v.key, elem |-> v.elem]
    ELSE Leaf(SerializeLeaf(v.kind))

\* json.dumps raises TypeError on anything but dict, list, str, int, float,
\* bool and None
JsonSerializable(v) ==
    /\ v.kind \in {"dict", "list", "records"} => v.elem \in {"none", "str", "int", "float", "nan"}
    /\ v.kind \notin {"dict", "list", "records"} => v.kind \in {"none", "str", "int", "float", "nan"}

\* json.loads(json.dumps(v)): keys come back as strings
JsonRoundTrip(v) == [v EXCEPT !.key = IF v.key = "int" THEN "str" ELSE v.key]

\* Python ==: equal structure, and NaN is equal to nothing
PyEqual(a, b) == a = b /\ a.kind # "nan" /\ a.elem # "nan"

NoReturn ==
    [status |-> "none", output |-> Leaf("none"), figures |-> {},
     from_result |-> FALSE, error |-> "None"]

\* a step of Part IV leaves the other parts alone
ExeStep == UNCHANGED <<jobVars, repairVars, pipeVars, streamVars, parseVars,
                       decompVars, workflowVars, raceVars>>

ExeInit ==
    /\ exePc = "idle"
    /\ timeout_sec = NoTimeout
    /\ alarm = NoAlarm
    /\ figures = {}
    /\ runFigures = {}
    /\ reached = {}
    /\ exeReturn = NoReturn
    /\ runCount = 0
    /\ duckdb_conn = "none"

\* execute_python, lines 162-260: limit the timeout, load the dataset, open the
\* query-engine connection and create its view, bind the environment, arm the
\* alarm and start exec(code); a missing library returns FAILED before that,
\* an unreadable dataset file raises at line 228 and a failing CREATE VIEW at
\* line 233, after the connection was opened at line 232
ExecuteCall ==
    /\ ExeStep
    /\ exePc \in {"idle", "returned"}
    /\ runCount < MaxRuns
    /\ runCount' = runCount + 1
    /\ runFigures' = {}
    /\ reached' = {}
    /\ \E req \in TimeoutRequests :
          /\ timeout_sec' = req
          /\ \/ /\ exePc' = "running"
                /\ alarm' = Alarm(EffectiveTimeout(req))
                /\ exeReturn' = NoReturn
                /\ duckdb_conn' = "open"
             \/ /\ exePc' = "returned"
                /\ exeReturn' = [NoReturn EXCEPT !.status = "FAILED", !.error = "text"]
                /\ duckdb_conn' = "none"
                /\ UNCHANGED alarm
             \/ /\ exePc' = "raised"
                /\ exeReturn' = NoReturn
                /\ duckdb_conn' \in {"none", "open"}
                /\ UNCHANGED alarm
    /\ UNCHANGED figures

\* the code opens a pyplot figure; pyplot keeps its figures for the process
CodeOpensFigure ==
    /\ ExeStep
    /\ exePc = "running"
    /\ \E n \in (1..MaxFigures) \ figures :
          /\ figures' = figures \cup {n}
          /\ runFigures' = runFigures \cup {n}
    /\ UNCHANGED <<exePc, timeout_sec, alarm, reached, exeReturn, runCount,
                   duckdb_conn>>

\* the code closes a figure itself
CodeClosesFigure ==
    /\ ExeStep
    /\ exePc = "running"
    /\ \E n \in figures :
          /\ figures' = figures \ {n}
          /\ runFigures' = runFigures \ {n}
    /\ UNCHANGED <<exePc, timeout_sec, alarm, reached, exeReturn, runCount,
                   duckdb_conn>>

\* the code uses one of the names bound in exec_globals
CodeUsesName ==
    /\ ExeStep
    /\ exePc = "running"
    /\ \E name \in BoundNames : reached' = reached \cup Grants(name)
    /\ UNCHANGED <<exePc, timeout_sec, alarm, figures, runFigures, exeReturn, runCount,
                   duckdb_conn>>

\* lines 263-292: exec returned; take result, take the visualizations from the
\* result dict or else from every open figure, close all figures, sanitize
CodeReturns ==
    /\ ExeStep
    /\ exePc = "running"
    /\ \E v \in ResultValues, has_visualizations \in BOOLEAN :
          /\ has_visualizations => v.kind = "dict"
          /\ exeReturn' = [status |-> "SUCCESS",
                           output |-> make_json_serializable(v),
                           figures |-> IF has_visualizations THEN {} ELSE figures,
                           from_result |-> has_visualizations,
                           error |-> "None"]
    /\ figures' = {}
    /\ alarm' = NoAlarm
    /\ duckdb_conn' = "closed"
    /\ exePc' = "returned"
    /\ UNCHANGED <<timeout_sec, runFigures, reached, runCount>>

\* lines 275-285 and 303-313: exec returned but extract_visualizations (line
\* 275, before the figures and the connection are closed) or
\* make_json_serializable (line 285, after both) raised; the except block
\* closes the connection and returns FAILED
PostProcessingRaises ==
    /\ ExeStep
    /\ exePc = "running"
    /\ \E at \in {"extract_visualizations", "make_json_serializable"} :
          figures' = IF at = "extract_visualizations" THEN figures ELSE {}
    /\ exeReturn' = [NoReturn EXCEPT !.status = "FAILED", !.error = "text"]
    /\ alarm' = NoAlarm
    /\ duckdb_conn' = "closed"
    /\ exePc' = "returned"
    /\ UNCHANGED <<timeout_sec, runFigures, reached, runCount>>

\* lines 303-313: the code raised an Exception; the connection is closed, no
\* figure is closed
CodeRaises ==
    /\ ExeStep
    /\ exePc = "running"
    /\ exeReturn' = [NoReturn EXCEPT !.status = "FAILED", !.error = "text"]
    /\ alarm' = NoAlarm
    /\ duckdb_conn' = "closed"
    /\ exePc' = "returned"
    /\ UNCHANGED <<timeout_sec, figures, runFigures, reached, runCount>>

\* lines 148-149 and 294-300: SIGALRM arrives, ExecutionTimeout, TIMEOUT; no
\* figure is closed
AlarmFires ==
    /\ ExeStep
    /\ exePc = "running"
    /\ alarm # NoAlarm
    /\ exeReturn' = [NoReturn EXCEPT !.status = "TIMEOUT", !.error = "text"]
    /\ alarm' = NoAlarm
    /\ duckdb_conn' = "closed"
    /\ exePc' = "returned"
    /\ UNCHANGED <<timeout_sec, figures, runFigures, reached, runCount>>

\* the code raised SystemExit (sys.exit() after "import sys"): it is not an
\* Exception, so neither except clause of lines 295-313 runs; the finally of
\* timeout_context disarms the alarm and the call raises
CodeExits ==
    /\ ExeStep
    /\ exePc = "running"
    /\ "process" \in reached
    /\ alarm' = NoAlarm
    /\ exePc' = "raised"
    /\ UNCHANGED <<timeout_sec, figures, runFigures, reached, exeReturn, runCount,
                   duckdb_conn>>

ExeNext ==
    \/ ExecuteCall \/ CodeOpensFigure \/ CodeClosesFigure \/ CodeUsesName
    \/ CodeReturns \/ PostProcessingRaises \/ CodeRaises \/ AlarmFires
    \/ CodeExits

(***************************************************************************)
(* Part V - the progress stream GET /analyze-stream                        *)
(***************************************************************************)

\* stages of a run started by the stream endpoint: it passes no verbose_mode,
\* so research() runs with its default True and emits stages 1..7
StreamStages == 7

ProgressEvent(n) == [type |-> "progress", stage |-> n, serializable |-> TRUE]
\* research() returned: the result dict holds the previews of the query
\* results as the query engine returned them, which json.dumps may reject
CompleteEvent(ok) == [type |-> "complete", stage |-> 0, serializable |-> ok]
ErrorEvent == [type |-> "error", stage |-> 0, serializable |-> TRUE]
\* the None that signals completion
EndMarker == [type |-> "None", stage |-> 0, serializable |-> TRUE]

\* a step of Part V leaves the other parts alone
StreamStep == UNCHANGED <<jobVars, repairVars, pipeVars, exeVars, parseVars,
                          decompVars, workflowVars, raceVars>>

StreamInit ==
    /\ genPc = "idle"
    /\ researchPc = "not_started"
    /\ researchStage = 0
    /\ progress_queue = << >>
    /\ emitted = << >>

\* lines 270-273: the dataset does not exist, 404, no stream
StreamNotFound ==
    /\ StreamStep
    /\ genPc = "idle"
    /\ genPc' = "rejected"
    /\ UNCHANGED <<researchPc, researchStage, progress_queue, emitted>>

\* lines 277, 308: the generator creates the queue, starts the
\* research task and waits
StreamStart ==
    /\ StreamStep
    /\ genPc = "idle"
    /\ genPc' = "waiting"
    /\ researchPc' = "running"
    /\ UNCHANGED <<researchStage, progress_queue, emitted>>

\* progress_callback, lines 279-285, called by research() before each stage
ResearchProgress ==
    /\ StreamStep
    /\ researchPc = "running"
    /\ researchStage < StreamStages
    /\ researchStage' = researchStage + 1
    /\ progress_queue' = Append(progress_queue, ProgressEvent(researchStage + 1))
    /\ UNCHANGED <<genPc, researchPc, emitted>>

\* lines 291-300: research() returned, the complete event is queued
ResearchReturns ==
    /\ StreamStep
    /\ researchPc = "running"
    /\ researchStage = StreamStages
    /\ \E ok \in BOOLEAN :
          progress_queue' = Append(progress_queue, CompleteEvent(ok))
    /\ researchPc' = "finally"
    /\ UNCHANGED <<genPc, researchStage, emitted>>

\* lines 301-303: research() raised, the error event is queued
ResearchRaises ==
    /\ StreamStep
    /\ researchPc = "running"
    /\ progress_queue' = Append(progress_queue, ErrorEvent)
    /\ researchPc' = "finally"
    /\ UNCHANGED <<genPc, researchStage, emitted>>

\* lines 304-305: finally, None is queued; also runs when the task was
\* cancelled
ResearchFinally ==
    /\ StreamStep
    /\ researchPc \in {"finally", "cancelling"}
    /\ progress_queue' = Append(progress_queue, EndMarker)
    /\ researchPc' = IF researchPc = "finally" THEN "done" ELSE "cancelled"
    /\ UNCHANGED <<genPc, researchStage, emitted>>

\* lines 320-321: "if not research_task.done(): research_task.cancel()"
CancelResearch(pc) == IF pc \in {"done", "cancelled"} THEN pc ELSE "cancelling"

\* lines 311-317: take the next update; None ends the stream; anything else is
\* serialized and yielded; json.dumps raising ends the generator through its
\* finally block
GeneratorNext ==
    /\ StreamStep
    /\ genPc = "waiting"
    /\ progress_queue # << >>
    /\ progress_queue' = Tail(progress_queue)
    /\ LET update == Head(progress_queue) IN
       IF update.type = "None"
       THEN /\ genPc' = "ended"
            /\ researchPc' = CancelResearch(researchPc)
            /\ UNCHANGED emitted
       ELSE IF ~update.serializable
       THEN /\ genPc' = "failed"
            /\ researchPc' = CancelResearch(researchPc)
            /\ UNCHANGED emitted
       ELSE /\ emitted' = Append(emitted, update)
            /\ UNCHANGED <<genPc, researchPc>>
    /\ UNCHANGED researchStage

\* the client goes away while the generator is suspended: the finally block of
\* lines 318-321 cancels the research task
ClientDisconnects ==
    /\ StreamStep
    /\ genPc = "waiting"
    /\ genPc' = "closed"
    /\ researchPc' = CancelResearch(researchPc)
    /\ UNCHANGED <<researchStage, progress_queue, emitted>>

StreamNext ==
    \/ StreamNotFound \/ StreamStart \/ ResearchProgress \/ ResearchReturns
    \/ ResearchRaises \/ ResearchFinally \/ GeneratorNext \/ ClientDisconnects

SubmitNext == SubmitNotFound \/ SubmitCreate \/ SubmitEnqueue \/ SubmitSetTaskId
TaskNext == TaskStart \/ TaskStageUpdate \/ TaskStageCall \/ TaskComplete \/ on_failure
CancelNext == CancelNotFound \/ CancelRead \/ CancelCommit
RevokeNext == RevokeDiscard \/ RevokeTerminate

JobNext == Tick \/ SubmitNext \/ TaskNext \/ CancelNext \/ RevokeNext

(***************************************************************************)
(* Part VI - DeepResearchService._parse_json_response                      *)
(***************************************************************************)

\* an oracle response as a sequence of symbols: an opening brace, a closing
\* brace, "w" for text that is well-formed wherever it stands (prose outside
\* an object, members inside one) and "!" for text that makes an object
\* malformed
Symbols == {"{", "}", "w", "!"}
Texts == UNION {[1..n -> Symbols] : n \in 0..MaxText}

\* str.find and str.rfind as 1-based positions, 0 when the symbol is absent
\* (Python's -1)
Find(t, c) ==
    IF \E i \in 1..Len(t) : t[i] = c
    THEN CHOOSE i \in 1..Len(t) : t[i] = c /\ \A j \in 1..(i - 1) : t[j] # c
    ELSE 0
RFind(t, c) ==
    IF \E i \in 1..Len(t) : t[i] = c
    THEN CHOOSE i \in 1..Len(t) : t[i] = c /\ \A j \in (i + 1)..Len(t) : t[j] # c
    ELSE 0

\* position at which the brace depth, d before position i, first returns to
\* zero; 0 if it never does
RECURSIVE CloseOf(_, _, _)
CloseOf(t, i, d) ==
    IF i > Len(t) THEN 0
    ELSE LET d2 == IF t[i] = "{" THEN d + 1
                   ELSE IF t[i] = "}" THEN d - 1
                   ELSE d
         IN IF d2 = 0 THEN i ELSE CloseOf(t, i + 1, d2)

\* json.loads accepts a text of these symbols when it is exactly one balanced
\* object with nothing malformed in it
ValidJson(t) ==
    /\ Len(t) >= 2
    /\ t[1] = "{"
    /\ CloseOf(t, 1, 0) = Len(t)
    /\ \A i \in 1..Len(t) : t[i] # "!"

\* json.loads: the value (identified with its text) or JSONDecodeError
json_loads(t) ==
    IF ValidJson(t)
    THEN [raised |-> FALSE, value |-> t]
    ELSE [raised |-> TRUE, value |-> << >>]

\* _parse_json_response, lines 941-949: the text from the first "{" to the
\* last "}" is parse_result, the whole response if there is no such span
parse_json_response(response) ==
    LET start == Find(response, "{") - 1
        end == RFind(response, "}")
    IN IF start # -1 /\ end > start
       THEN json_loads(SubSeq(response, start + 1, end))
       ELSE json_loads(response)

NotParsed == [raised |-> FALSE, value |-> <<"?">>]

\* a step of Part VI leaves the other parts alone
ParseStep == UNCHANGED <<jobVars, repairVars, pipeVars, exeVars, streamVars,
                         decompVars, workflowVars, raceVars>>

ParseIdle ==
    /\ response_text = << >>
    /\ parse_result = NotParsed

\* any response of the oracle
ParseInit ==
    /\ response_text \in Texts
    /\ parse_result = NotParsed

\* a stage hands the oracle's response to the parser
ParseResponse ==
    /\ ParseStep
    /\ parse_result = NotParsed
    /\ parse_result' = parse_json_response(response_text)
    /\ UNCHANGED response_text

(***************************************************************************)
(* Part VII - _decompose_question and its max_count argument               *)
(***************************************************************************)

\* DeepResearchRequest.max_sub_questions: Field(default=10, ge=1, le=20)
MinSubQuestions == 1
MaxSubQuestions == 20

NotDecomposed == [raised |-> FALSE, value |-> <<"?">>]

\* a step of Part VII leaves the other parts alone
DecompStep ==
    UNCHANGED <<jobVars, repairVars, pipeVars, exeVars, streamVars, parseVars,
                workflowVars, raceVars>>

DecompIdle ==
    /\ max_count = MinSubQuestions
    /\ oracle_list = << >>
    /\ decomposed = NotDecomposed

\* any max_sub_questions the request model accepts
DecompInit ==
    /\ max_count \in MinSubQuestions..MaxSubQuestions
    /\ oracle_list = << >>
    /\ decomposed = NotDecomposed

\* _decompose_question, lines 275-316: max_count is written into the prompt
\* (line 284); the list returned is built from every entry of the oracle's
\* list (lines 307-316)
DecomposeCall ==
    /\ DecompStep
    /\ decomposed = NotDecomposed
    /\ \E resp \in DecomposeResponses, n \in 0..MaxQuestions :
          \E sqs \in [1..n -> RunIntents] :
             /\ oracle_list' = sqs
             /\ decomposed' = DecomposeQuestion(resp, sqs)
    /\ UNCHANGED max_count

(***************************************************************************)
(* Part VIII - WorkflowOrchestrator.execute_workflow                       *)
(***************************************************************************)

\* step numbers a request can carry ("step", default position + 1) and the
\* numbers its depends_on lists can name
StepNums == 1..MaxSteps

NoStep == [step_num |-> 0, depends_on |-> {}, status |-> "pending"]

\* a step of Part VIII leaves the other parts alone
WorkflowStepFrame ==
    UNCHANGED <<jobVars, repairVars, pipeVars, exeVars, streamVars, parseVars,
                decompVars, raceVars>>

WorkflowIdle ==
    /\ total_steps = 0
    /\ wfIdx = 0
    /\ step_results = {}
    /\ failedNums = {}
    /\ skippedNums = {}
    /\ lastStep = NoStep
    /\ wfPc = "loop"

\* execute_workflow called with a list of 0..MaxSteps steps
WorkflowInit ==
    /\ total_steps \in 0..MaxSteps
    /\ wfIdx = 0
    /\ step_results = {}
    /\ failedNums = {}
    /\ skippedNums = {}
    /\ lastStep = NoStep
    /\ wfPc = "loop"

\* _check_dependencies that is content with one dependency met
CheckDependenciesAny(depends_on, stepResults) ==
    depends_on = {} \/ \E dep_step \in depends_on : dep_step \in stepResults

\* _check_dependencies, lines 215-223: every number of depends_on is a key of
\* context['step_results']
CheckDependencies(depends_on, stepResults) ==
    depends_on = {} \/ \A dep_step \in depends_on : dep_step \in stepResults

\* how the execution of a step ends: it returns, or it raises (unknown step
\* type, query error, execution status other than SUCCESS)
StepOutcomes == {"success", "failed"}

\* lines 78-120, one iteration of the loop over the steps: skip the step when
\* its dependencies are not met, else execute it; success stores its result
\* under its step number, an exception marks it failed; the loop goes on
RunStep ==
    /\ WorkflowStepFrame
    /\ wfPc = "loop"
    /\ wfIdx < total_steps
    /\ wfIdx' = wfIdx + 1
    /\ \E num \in StepNums, deps \in SUBSET StepNums :
          IF ~CheckDependencies(deps, step_results)
          THEN /\ lastStep' = [step_num |-> num, depends_on |-> deps,
                               status |-> "skipped"]
               /\ skippedNums' = skippedNums \cup {num}
               /\ UNCHANGED <<step_results, failedNums>>
          ELSE \E outcome \in StepOutcomes :
                  /\ lastStep' = [step_num |-> num, depends_on |-> deps,
                                  status |-> outcome]
                  /\ step_results' = IF outcome = "success"
                                     THEN step_results \cup {num}
                                     ELSE step_results
                  /\ failedNums' = IF outcome = "failed"
                                   THEN failedNums \cup {num}
                                   ELSE failedNums
                  /\ UNCHANGED skippedNums
    /\ UNCHANGED <<total_steps, wfPc>>

\* lines 122-140: the loop is over, the summary is returned
WorkflowReturn ==
    /\ WorkflowStepFrame
    /\ wfPc = "loop"
    /\ wfIdx = total_steps
    /\ wfPc' = "returned"
    /\ UNCHANGED <<total_steps, wfIdx, step_results, failedNums, skippedNums,
                   lastStep>>

WorkflowNext == RunStep \/ WorkflowReturn

(***************************************************************************)
(* Part IX - concurrent POST /execute requests for one record              *)
(***************************************************************************)

\* the requests in flight, each served with its own database session, by
\* server processes that share the database (within one event loop lines
\* 144-157 contain no await)
Requests == 1..MaxRequests

\* a step of Part IX leaves the other parts alone
RaceStep ==
    UNCHANGED <<jobVars, repairVars, pipeVars, exeVars, streamVars, parseVars,
                decompVars, workflowVars>>

RaceIdle ==
    /\ execution_status = "PENDING"
    /\ reqPc = [r \in Requests |-> "idle"]
    /\ reqRead = [r \in Requests |-> "none"]

\* the record as any earlier request can have left it
RaceInit ==
    /\ execution_status \in ExecutionStatuses
    /\ reqPc = [r \in Requests |-> "idle"]
    /\ reqRead = [r \in Requests |-> "none"]

\* lines 144-152: load the record; 400 if its status is RUNNING
RequestLoad(r) ==
    /\ RaceStep
    /\ reqPc[r] = "idle"
    /\ reqRead' = [reqRead EXCEPT ![r] = execution_status]
    /\ reqPc' = [reqPc EXCEPT ![r] = IF execution_status = "RUNNING"
                                     THEN "rejected"
                                     ELSE "passed"]
    /\ UNCHANGED execution_status

\* lines 155-157: set the status RUNNING and commit; the UPDATE is not
\* conditional on the status read
RequestMarkRunning(r) ==
    /\ RaceStep
    /\ reqPc[r] = "passed"
    /\ execution_status' = "RUNNING"
    /\ reqPc' = [reqPc EXCEPT ![r] = "executing"]
    /\ UNCHANGED reqRead

\* lines 159-256 (the retry loop of Part II): the code has run, the final
\* status is committed and the handler ends
RequestFinish(r) ==
    /\ RaceStep
    /\ reqPc[r] = "executing"
    /\ \E st \in FinalStatuses : execution_status' = st
    /\ reqPc' = [reqPc EXCEPT ![r] = "done"]
    /\ UNCHANGED reqRead

RaceNext ==
    \E r \in Requests : RequestLoad(r) \/ RequestMarkRunning(r) \/ RequestFinish(r)

InitJob ==
    /\ JobInit
    /\ RepairIdle
    /\ PipeIdle
    /\ ExeInit
    /\ StreamInit
    /\ ParseIdle
    /\ DecompIdle
    /\ WorkflowIdle
    /\ RaceIdle
SpecJob == InitJob /\ [][JobNext]_vars

\* the workers run queued tasks and the handlers run to their end
FairSpecJob ==
    /\ SpecJob
    /\ WF_vars(SubmitCreate \/ SubmitEnqueue \/ SubmitSetTaskId)
    /\ WF_vars(TaskNext)
    /\ WF_vars(CancelCommit)

InitRepair ==
    /\ JobInit
    /\ RepairInit
    /\ PipeIdle
    /\ ExeInit
    /\ StreamInit
    /\ ParseIdle
    /\ DecompIdle
    /\ WorkflowIdle
    /\ RaceIdle
SpecRepair == InitRepair /\ [][RepairNext]_vars

InitPipeline ==
    /\ JobInit
    /\ RepairIdle
    /\ PipeInit
    /\ ExeInit
    /\ StreamInit
    /\ ParseIdle
    /\ DecompIdle
    /\ WorkflowIdle
    /\ RaceIdle
SpecPipeline == InitPipeline /\ [][PipeNext]_vars

\* the dispatch stage alone, over every kind of classified question
RouteNext == DispatchQuestion \/ DispatchReturn
InitRoute ==
    /\ JobInit
    /\ RepairIdle
    /\ RouteInit
    /\ ExeInit
    /\ StreamInit
    /\ ParseIdle
    /\ DecompIdle
    /\ WorkflowIdle
    /\ RaceIdle
SpecRoute == InitRoute /\ [][RouteNext]_vars

InitExecutor ==
    /\ JobInit
    /\ RepairIdle
    /\ PipeIdle
    /\ ExeInit
    /\ StreamInit
    /\ ParseIdle
    /\ DecompIdle
    /\ WorkflowIdle
    /\ RaceIdle
SpecExecutor == InitExecutor /\ [][ExeNext]_vars

InitStream ==
    /\ JobInit
    /\ RepairIdle
    /\ PipeIdle
    /\ ExeInit
    /\ StreamInit
    /\ ParseIdle
    /\ DecompIdle
    /\ WorkflowIdle
    /\ RaceIdle
SpecStream == InitStream /\ [][StreamNext]_vars

InitParse ==
    /\ JobInit
    /\ RepairIdle
    /\ PipeIdle
    /\ ExeInit
    /\ StreamInit
    /\ ParseInit
    /\ DecompIdle
    /\ WorkflowIdle
    /\ RaceIdle
SpecParse == InitParse /\ [][ParseResponse]_vars

InitDecomp ==
    /\ JobInit
    /\ RepairIdle
    /\ PipeIdle
    /\ ExeInit
    /\ StreamInit
    /\ ParseIdle
    /\ DecompInit
    /\ WorkflowIdle
    /\ RaceIdle
SpecDecomp == InitDecomp /\ [][DecomposeCall]_vars

InitWorkflow ==
    /\ JobInit
    /\ RepairIdle
    /\ PipeIdle
    /\ ExeInit
    /\ StreamInit
    /\ ParseIdle
    /\ DecompIdle
    /\ WorkflowInit
    /\ RaceIdle
SpecWorkflow == InitWorkflow /\ [][WorkflowNext]_vars

InitRace ==
    /\ JobInit
    /\ RepairIdle
    /\ PipeIdle
    /\ ExeInit
    /\ StreamInit
    /\ ParseIdle
    /\ DecompIdle
    /\ WorkflowIdle
    /\ RaceInit
SpecRace == InitRace /\ [][RaceNext]_vars

(***************************************************************************)
(* Properties of the ResearchJob state machine                             *)
(***************************************************************************)

\* C1: once the persisted status is completed, failed or cancelled, no later
\* action changes it (a terminal status is never overwritten by running or by
\* another terminal status).
C1_TerminalStatusNeverOverwritten ==
    [][job.status \in TerminalStatuses => job'.status = job.status]_jobVars

\* C2: every job created by submit eventually reaches completed, failed or
\* cancelled, given that the worker runs the task and every stage call
\* returns or raises.
C2_JobEventuallyTerminal ==
    jobExists ~> (job.status \in TerminalStatuses)

\* C7: while the status is running the persisted progress_percentage never
\* decreases and takes only the checkpoint values 5, 10, 20, 35, 55, 70, 80
\* and, in verbose mode only, 90.
C7_ProgressMonotoneWhileRunning ==
    /\ [](job.status = RUNNING =>
             /\ job.progress_percentage \in {5, 10, 20, 35, 55, 70, 80, 90}
             /\ (job.progress_percentage = 90 => verbose = 1))
    /\ [][(job.status = RUNNING /\ job'.status = RUNNING) =>
             job'.progress_percentage >= job.progress_percentage]_jobVars

\* C7 witness: a running verbose job whose progress has reached the 7th checkpoint
C7_Witness ==
    /\ job.status = RUNNING
    /\ job.progress_percentage = 90
    /\ taskPc = "call"

C9_CompletedAtWrittenOnce ==
    /\ [](/\ completedAtWrites <= 1
          /\ (job.status \in {PENDING, RUNNING} => job.completed_at = NULL))
    /\ [][completedAtWrites' # completedAtWrites =>
             (job.status \notin TerminalStatuses /\ job'.status \in TerminalStatuses)]_jobVars

\* C10: a cancel applied to a pending job yields status cancelled with
\* completed_at set and started_at unset; a cancel applied to a running job
\* yields status cancelled with completed_at >= started_at and
\* execution_time_seconds = completed_at - started_at.
C10_CancelYields ==
    [][(cancelPc = "loaded" /\ cancelPc' = "idle") =>
          /\ job'.status = CANCELLED
          /\ job'.completed_at # NULL
          /\ (cancelJob.status = PENDING => job'.started_at = NULL)
          /\ (cancelJob.status = RUNNING =>
                /\ job'.completed_at >= job'.started_at
                /\ job'.execution_time_seconds =
                       job'.completed_at - job'.started_at)]_jobVars

\* C11: cancel is accepted only for a pending or running job; a request that
\* finds the job completed, failed or cancelled answers success = false,
\* revokes nothing and leaves the whole record unchanged; a request for an
\* unknown job id answers not-found and changes nothing.
C11_CancelRefusedLeavesJob ==
    /\ [](cancelPc = "loaded" => cancelJob.status \in {PENDING, RUNNING})
    /\ [][cancelCount' = cancelCount + 1 =>
             /\ (jobExists /\ job.status \in TerminalStatuses) =>
                   /\ cancelReply' = "false"
                   /\ cancelPc' = "idle"
                   /\ revoked' = revoked
                   /\ job' = job
                   /\ taskPc' = taskPc
             /\ ~jobExists =>
                   /\ cancelReply' = "not_found"
                   /\ cancelPc' = "idle"
                   /\ revoked' = revoked
                   /\ job' = job
                   /\ jobExists' = jobExists]_vars

\* C11 witness: a cancel request was refused for a job that had been cancelled
C11_Witness ==
    /\ cancelReply = "false"
    /\ job.status = CANCELLED
    /\ cancelCount = 2

\* C12: status = completed implies result non-null, started_at and completed_at
\* set, execution_time_seconds = completed_at - started_at and
\* progress_percentage = 100, from the first state in which completed is seen.
C12_CompletedFieldsTogether ==
    job.status = COMPLETED =>
        /\ job.result
        /\ job.started_at # NULL
        /\ job.completed_at # NULL
        /\ job.execution_time_seconds = job.completed_at - job.started_at
        /\ job.progress_percentage = 100

\* C12 witness: a completed job that ran for a positive time
C12_Witness ==
    /\ job.status = COMPLETED
    /\ job.execution_time_seconds > 0

\* C13: when a stage raises in the worker the job ends failed, with
\* error_message and completed_at set and result null, and no later stage is
\* started.
C13_StageFailureEndsFailed ==
    /\ [](taskPc = "failed" =>
             /\ job.status = FAILED
             /\ job.error_message
             /\ job.completed_at # NULL
             /\ ~job.result)
    /\ [][(taskPc = "raised" \/ taskPc = "failed") =>
             /\ taskStage' = taskStage
             /\ taskPc' \in {"raised", "failed", "terminated"}]_vars

(***************************************************************************)
(* Properties of the retry loop and of the pipeline                        *)
(***************************************************************************)

\* C3: for one piece of generated code the retry loop calls the executor at
\* most max_retries + 1 = 3 times, whatever the outcomes and fixer results.
C3_AtMostThreeExecutions ==
    Len(codesRun) <= max_retries + 1

\* C3 witness: a request that used all three executions and two repairs
C3_Witness ==
    /\ Len(codesRun) = 3
    /\ Len(fixLog) = 2
    /\ exPc = "returned"

\* C4: in the pipeline a failed AnalysisResult of the generated-code path whose
\* sandbox execution ended failed or timeout is produced only after repaired
\* code was executed up to the retry limit or a fixer found no fix.
C4_FailedOnlyAfterRepairs ==
    \A i \in 1..Len(results) :
        (/\ results[i].method = "python"
         /\ ~results[i].success
         /\ dispatchLog[i].outcome \in {"FAILED", "TIMEOUT"})
        => (dispatchLog[i].executions = max_retries + 1 \/ dispatchLog[i].fixes >= 1)

\* outcomes of a dispatched question that are failures of that question
FailureOutcomes ==
    {"generate_raises", "query_raises", "execute_raises", "FAILED", "TIMEOUT"}

C6_EnrichmentFailureIsDegraded ==
    enrichOutcome \in {"call_fails", "parse_fails"} =>
        (world_knowledge = "empty" /\ raisedAt # "enrich" /\ pipePc # "raised")

C15_LastAttemptRecorded ==
    (exPc = "returned" /\ \A i \in 1..Len(resultsRun) : resultsRun[i].status # "SUCCESS") =>
        /\ Len(resultsRun) >= 1
        /\ rec.execution_status = resultsRun[Len(resultsRun)].status
        /\ rec.error_message = resultsRun[Len(resultsRun)].error

\* C15 witness: three attempts, the first timed out, the last failed, and the
\* record says failed
C15_Witness ==
    /\ exPc = "returned"
    /\ Len(resultsRun) = 3
    /\ resultsRun[1].status = "TIMEOUT"
    /\ resultsRun[3].status = "FAILED"
    /\ rec.execution_status = "FAILED"

\* C16: the retry loop never changes the stored generated_code of the record,
\* whatever the number of repairs; the first attempt runs the stored code, a
\* fixer result is a new value, and codes already run are not altered.
C16_GeneratedCodeUntouched ==
    /\ [](/\ Len(codesRun) >= 1 => codesRun[1] = rec.generated_code
          /\ \A i \in 1..Len(fixLog) :
                Len(codesRun) >= fixLog[i].attempt + 1 =>
                    codesRun[fixLog[i].attempt + 1] = fixLog[i].before)
    /\ [][/\ rec'.generated_code = rec.generated_code
          /\ \A i \in 1..Len(codesRun) : codesRun'[i] = codesRun[i]]_vars

\* C16 witness: two repairs were applied, the last attempt ran other code than
\* the stored one, and the request returned
C16_Witness ==
    /\ exPc = "returned"
    /\ Len(fixLog) = 2
    /\ Len(codesRun) = 3
    /\ codesRun[2] # rec.generated_code
    /\ codesRun[1] = rec.generated_code

\* C17: a classified question with category in {data_backed, mixed} and
\* feasibility in {high, medium} is routed to generated-code execution if and
\* only if its intent_type is causal, forecasting, anomaly_detection or
\* trend_analysis and enable_python is set; in every other case it goes to the
\* query engine and its result has method sql.
C17_RoutingRule ==
    /\ \A i \in 1..Len(results) :
          LET cq == classified[results[i].question] IN
          (cq.category \in {"data_backed", "mixed"} /\ cq.feasibility \in {"high", "medium"}) =>
             IF /\ cq.intent_type \in {"causal", "forecasting", "anomaly_detection",
                                       "trend_analysis"}
                /\ enable_python
             THEN /\ results[i].method = "python"
                  /\ dispatchLog[i].outcome \in PythonOutcomes
                  /\ dispatchLog[i].queries = 0
             ELSE /\ results[i].method = "sql"
                  /\ dispatchLog[i].outcome \in SqlOutcomes
                  /\ dispatchLog[i].executions = 0
    /\ \A k \in 1..(dispatchIdx - 1) :
          (classified[k].category \in {"data_backed", "mixed"}
              /\ classified[k].feasibility \in {"high", "medium"}) =>
             \E i \in 1..Len(results) : results[i].question = k

\* C17 witness: a forecasting question of a mixed, medium-feasibility
\* classification was answered by the query engine because generated code was
\* switched off
C17_Witness ==
    /\ ~enable_python
    /\ dispatchIdx = 2
    /\ classified[1].intent_type = "forecasting"
    /\ classified[1].category = "mixed"
    /\ classified[1].feasibility = "medium"
    /\ Len(results) = 1
    /\ results[1].method = "sql"

\* C18: a question classified insufficient_data makes no oracle call and no
\* query or sandbox execution in dispatch and yields exactly one AnalysisResult
\* with method none, success = false and the error "Insufficient data to answer
\* this question"; a world_knowledge question yields no result in dispatch.
C18_InsufficientDataIsLocal ==
    \A k \in 1..(dispatchIdx - 1) :
        LET mine == {i \in 1..Len(results) : results[i].question = k} IN
        /\ classified[k].category = "insufficient_data" =>
              /\ Cardinality(mine) = 1
              /\ \A i \in mine :
                    /\ results[i].method = "none"
                    /\ ~results[i].success
                    /\ results[i].error = "insufficient"
                    /\ dispatchLog[i].oracle_calls = 0
                    /\ dispatchLog[i].queries = 0
                    /\ dispatchLog[i].executions = 0
        /\ classified[k].category = "world_knowledge" => mine = {}

\* C18 witness: an insufficient_data question whose feasibility was reported
\* high, dispatched without any call
C18_Witness ==
    /\ dispatchIdx = 2
    /\ classified[1].category = "insufficient_data"
    /\ classified[1].feasibility = "high"
    /\ Len(results) = 1
    /\ results[1].method = "none"
    /\ dispatchLog[1].oracle_calls = 0

\* C19: the result list of dispatch holds exactly one AnalysisResult per
\* classified question that is eligible or has category insufficient_data, none
\* for any other, in the order of the classified questions, whatever succeeds
\* or fails; supporting_details has the same length and order.
C19_OneResultPerRoutedQuestion ==
    LET routed == {k \in 1..(dispatchIdx - 1) :
                      \/ /\ classified[k].category \in {"data_backed", "mixed"}
                         /\ classified[k].feasibility \in {"high", "medium"}
                      \/ classified[k].category = "insufficient_data"}
    IN /\ Len(results) = Cardinality(routed)
       /\ \A i \in 1..Len(results) : results[i].question \in routed
       /\ \A i, j \in 1..Len(results) :
             i < j => results[i].question < results[j].question
       /\ pipePc \in {"follow_up", "verbose", "returned"} =>
             /\ dispatchIdx = Len(classified) + 1
             /\ Len(supporting_details) = Len(results)
             /\ \A i \in 1..Len(results) :
                   supporting_details[i].question = results[i].question

\* C19 witness: of two classified questions the first (data_backed with low
\* feasibility) was skipped and the second failed; one result and one detail
C19_Witness ==
    /\ pipePc = "returned"
    /\ Len(classified) = 2
    /\ classified[1].category = "data_backed"
    /\ classified[1].feasibility = "low"
    /\ Len(results) = 1
    /\ results[1].question = 2
    /\ ~results[1].success
    /\ Len(supporting_details) = 1
    /\ supporting_details[1].question = 2

\* C20: supporting_details[i] is built from the i-th AnalysisResult only: same
\* question, method and success, data = the result's data if success else
\* null, error = the result's error if not success else null; nothing the
\* synthesis oracle returns drops, reorders or replaces these records.
C20_DetailsFromResultsOnly ==
    pipePc \in {"follow_up", "verbose", "returned"} =>
        /\ DOMAIN supporting_details = 1..Len(results)
        /\ \A i \in 1..Len(results) :
              /\ supporting_details[i].question = results[i].question
              /\ supporting_details[i].method = results[i].method
              /\ supporting_details[i].success = results[i].success
              /\ supporting_details[i].data =
                    (IF results[i].success THEN results[i].data ELSE "None")
              /\ supporting_details[i].error =
                    (IF results[i].success THEN "None" ELSE results[i].error)

\* C20 witness: the oracle's synthesis carried its own supporting_details in
\* reverse order; the returned one follows the two results
C20_Witness ==
    /\ pipePc = "returned"
    /\ Len(results) = 2
    /\ oracle_synthesis.has_details
    /\ Len(oracle_synthesis.details) = 2
    /\ oracle_synthesis.details[1].question = 2
    /\ supporting_details[1].question = 1
    /\ supporting_details[1].method # supporting_details[2].method

\* C21: if the decomposition oracle's response cannot be parsed into a
\* well-formed list of sub-questions (not JSON, no sub_questions list, or an
\* entry lacking a required field), the decomposition stage fails and no later
\* stage runs.
C21_MalformedDecompositionFails ==
    decomposeOutcome \in {"not_json", "no_list", "entry_lacks_field"} =>
        /\ pipePc = "raised"
        /\ raisedAt = "decompose"
        /\ stageTrace = <<"decompose">>

\* C22: each ClassifiedQuestion pairs a sub-question with the classification
\* the oracle gave for that same sub-question, in input order; a sub-question
\* the oracle omitted is absent from the output.
C22_ClassificationMatchesQuestion ==
    /\ \A i \in 1..Len(classified) :
          /\ classified[i].sub_question = classified[i].question_number
          /\ classified[i].intent_type = sub_questions[classified[i].question_number]
    /\ \A i, j \in 1..Len(classified) :
          i < j => classified[i].sub_question < classified[j].sub_question

\* C23: for every requested timeout (absent, zero, negative, in range, above
\* the ceiling) the code runs with an armed wall-clock limit that is positive
\* and at most 120 seconds: 60 when none is given, the requested value when it
\* is at most 120, and 120 otherwise.
C23_TimeoutArmedAndBounded ==
    exePc = "running" =>
        /\ alarm.hi > 0 \/ alarm.lo > 0
        /\ alarm.hi = 0 /\ alarm.lo <= 120
        /\ ~timeout_sec.given => alarm.lo = 60
        /\ (timeout_sec.given /\ timeout_sec.value <= 120) =>
              alarm.lo = timeout_sec.value
        /\ (timeout_sec.given /\ timeout_sec.value > 120) => alarm.lo = 120

\* C24: every record execute_python returns is JSON-serializable and a
\* serialize-then-deserialize round trip gives an equal record; in the output
\* slot not-a-number values have become null.
C24_ReturnRoundTrips ==
    exeReturn.status # "none" =>
        /\ JsonSerializable(exeReturn.output)
        /\ PyEqual(JsonRoundTrip(exeReturn.output), exeReturn.output)
        /\ exeReturn.output.kind # "nan"
        /\ exeReturn.output.elem # "nan"

\* C25: after execute_python returns no figure opened by the executed code is
\* open, whether the status is success, failed or timeout; on success every
\* figure the code left open is among the returned visualizations.
C25_FiguresReleased ==
    exePc = "returned" =>
        /\ figures \cap runFigures = {}
        /\ exeReturn.status = "SUCCESS" => runFigures \subseteq exeReturn.figures

\* C26: the executed code reaches only the allow-listed builtins and the
\* pre-bound library handles; no filesystem, process or network capability is
\* reachable from the names bound in its environment.
C26_NoCapabilityReachable ==
    reached \cap Capabilities = {}

\* C27: what a call returns does not depend on code executed earlier in the
\* process: its visualizations hold only figures produced by its own code.
C27_OnlyOwnVisualizations ==
    (exePc = "returned" /\ exeReturn.status = "SUCCESS") =>
        exeReturn.figures \subseteq runFigures

\* the stages of research() in program order; stage i carries the number i
StageOrder ==
    <<"decompose", "classify", "dispatch", "enrich", "synthesize", "follow_up", "verbose">>

\* C28: within one run the stages start in the fixed order decompose,
\* classify, dispatch, enrich, synthesize, follow-up (then the verbose stage
\* when enabled), each only after the previous one returned; the progress
\* events carry strictly increasing stage numbers starting at 1.
C28_StagesInFixedOrder ==
    /\ [](/\ Len(stageTrace) <= Len(StageOrder)
          /\ \A i \in 1..Len(stageTrace) : stageTrace[i] = StageOrder[i]
          /\ (Len(stageTrace) = 7) => verbose_mode
          /\ pipePc = "returned" => Len(stageTrace) = (IF verbose_mode THEN 7 ELSE 6))
    /\ [][pipePc = "raised" => stageTrace' = stageTrace]_vars

\* C28 witness: a verbose run returned after starting all seven stages
C28_Witness ==
    /\ pipePc = "returned"
    /\ verbose_mode
    /\ stageTrace = StageOrder
    /\ Len(results) = 2

C30_WorkerFindsItsJob ==
    /\ [](taskPc # "none" => jobExists)
    /\ [][(taskPc = "queued" /\ taskPc' # "queued") =>
             taskPc' \in {"call", "discarded"}]_vars

\* C30 witness: submit has returned the job id while the worker task is still
\* queued, its record committed and pending, no stage started
C30_Witness ==
    /\ submitPc = "done"
    /\ taskPc = "queued"
    /\ jobExists
    /\ job.status = PENDING
    /\ job.started_at = NULL

\* the handler of POST /execute has ended, by a response or by an error
ExecuteEnded == exPc = "returned" \/ exPc = "http500"

\* C31: every exception raised while the repair loop runs is contained by the
\* loop: it ends by reporting a final disposition success, failed or timeout
\* to its caller, and no exception leaves it.
C31_ExceptionsContained ==
    /\ exPc # "except"
    /\ ExecuteEnded =>
          /\ exPc = "returned"
          /\ rec.execution_status \in FinalStatuses

\* C32: after an attempt returned success the loop executes nothing more and
\* calls no fixer, and the recorded status, output and visualizations are
\* those of that attempt, with a null error.
C32_SuccessIsFinalAndRecorded ==
    /\ \A i \in 1..Len(resultsRun) :
          resultsRun[i].status = "SUCCESS" =>
              /\ i = Len(resultsRun)
              /\ Len(codesRun) = i
              /\ \A j \in 1..Len(fixLog) : fixLog[j].attempt + 1 < i
    /\ (/\ ExecuteEnded
        /\ Len(resultsRun) >= 1
        /\ resultsRun[Len(resultsRun)].status = "SUCCESS") =>
          /\ rec.execution_status = "SUCCESS"
          /\ rec.error_message = "None"
          /\ rec.result_summary = resultsRun[Len(resultsRun)].output
          /\ rec.visualizations = resultsRun[Len(resultsRun)].visualizations

\* C34: the loop never executes the same code in two consecutive attempts:
\* every attempt after the first runs code a fixer produced, different from
\* the code of the attempt before it, whatever the failing outcome was.
C34_NoCodeRunTwiceInARow ==
    \A i \in 2..Len(codesRun) :
        /\ codesRun[i] # codesRun[i - 1]
        /\ \E j \in 1..Len(fixLog) :
              /\ fixLog[j].attempt + 2 = i
              /\ codesRun[i] \in {fixLog[j].pattern, fixLog[j].llm}

\* C36: a request that set the record to RUNNING never leaves it RUNNING: when
\* the handler has returned or raised, the status is SUCCESS, FAILED or
\* TIMEOUT, completed_at is set, and the stored status is the one returned for
\* the last attempt executed.
C36_RunningIsAlwaysResolved ==
    ExecuteEnded =>
        /\ rec.execution_status \in FinalStatuses
        /\ rec.completed
        /\ \A i \in 1..Len(resultsRun) :
              (i = Len(resultsRun) /\ resultsRun[i].status \in FinalStatuses) =>
                  rec.execution_status = resultsRun[i].status

\* C39: every query-engine connection opened by execute_python is closed by
\* the time the call ends, on every exit path after it was opened: success,
\* runtime failure, timeout, and an error raised while extracting the
\* visualizations or normalizing the output.
C39_ConnectionClosedAtExit ==
    (exePc = "returned" \/ exePc = "raised") => duckdb_conn # "open"

\* the first balanced {...} block of a text, the empty sequence if none
FirstBalancedBlock(t) ==
    LET s == Find(t, "{")
        e == IF s = 0 THEN 0 ELSE CloseOf(t, s, 0)
    IN IF e = 0 THEN << >> ELSE SubSeq(t, s, e)

\* C33: for every oracle response the parser returns the parse of the first
\* balanced {...} block: when that block is valid JSON its value is returned
\* whatever follows it, and a parse failure is raised only when there is no
\* such block.
C33_FirstBalancedBlockParsed ==
    parse_result # NotParsed =>
        IF ValidJson(FirstBalancedBlock(response_text))
        THEN ~parse_result.raised /\ parse_result.value = FirstBalancedBlock(response_text)
        ELSE parse_result.raised

\* C37: for every maximum sub-question count k in 1..20 and every oracle
\* response, the decomposer returns at most k sub-questions, in the oracle's
\* output order (so that the dispatch stage handles at most k questions).
C37_AtMostMaxCountSubQuestions ==
    (decomposed # NotDecomposed /\ ~decomposed.raised) =>
        /\ Len(decomposed.value) <= max_count
        /\ Len(decomposed.value) <= Len(oracle_list)
        /\ \A i \in 1..Len(decomposed.value) : decomposed.value[i] = oracle_list[i]

\* C38: every classified question is accounted for downstream, whatever its
\* category and feasibility: it yields an AnalysisResult in the dispatch stage
\* or it is part of the enrichment batch; none is dropped without a trace.
C38_EveryQuestionAccountedFor ==
    \A k \in 1..Len(classified) :
        k < dispatchIdx =>
            \/ \E i \in 1..Len(results) :
                  results[i].question = classified[k].sub_question
            \/ k \in EnrichBatch(classified)

C35_AtMostOneExecution ==
    /\ Cardinality({r \in Requests : reqPc[r] = "executing"}) <= 1
    /\ \A r \in Requests : reqRead[r] = "RUNNING" => reqPc[r] = "rejected"

====
